---- MODULE Spec2Model ----
(***************************************************************************)
(* Model of the Jira-Board issue store and of the drag-and-drop reorder.   *)
(*                                                                         *)
(* The server keeps issues (api/src/entities/Issue.ts) and serves          *)
(* POST /issues, PUT /issues/:issueId and DELETE /issues/:issueId.  A      *)
(* reorder is a drag and drop: the list position is computed from the      *)
(* column as it was read, then PUT /issues/:issueId carries                *)
(* { status, listPosition } and the server saves both fields.              *)
(*                                                                         *)
(* listPosition is a double precision column.  It is modelled in fixed     *)
(* point: the integer n stands for n / 2^FracBits, and a midpoint that is  *)
(* not representable is rounded to nearest, ties to even, as the floating  *)
(* point unit rounds it.                                                   *)
(*                                                                         *)
(* Around the store stand the server process (api/src/index.ts: the        *)
(* database connection, then the express pipeline), the guest accounts     *)
(* made by POST /authentication/guest and the clients that hold a token.   *)
(***************************************************************************)
EXTENDS Integers, Sequences, FiniteSets

VARIABLES
    issues,     \* the issues table: id -> [projectId, type, status, priority,
                \* listPosition, reporterId, userIds]
    nextId,     \* the next value of the issues' generated primary key
    pc,         \* per request slot: "idle", "sent" (PUT in flight) or "done"
    req,        \* per request slot: the reorder it carries
    response,   \* the response of the handler that completed last
    ops,        \* number of requests begun so far
    plan,       \* the reorders of a two-drag scenario (SpecPair), else NoPlan
    texts,      \* the issues table: id -> [title, description, descriptionText]
    comments,   \* the comments table: id -> [issueId, userId]
    nextCommentId,  \* the next value of the comments' generated primary key
    users,      \* the ids of the users table
    listed,     \* the body of the last response, when it answers GET /issues
    local,      \* the client's local issue state and, per request slot, the
                \* fields an issue held before its drag
    boot,       \* the server process: its phase and what it has completed
    client,     \* per client: the stored token and the place in the
                \* authentication flow
    guest,      \* per client: the progress and the rows of createGuestAccount
    http,       \* the last request that went through the express pipeline
    projects    \* the projects table: id -> [users]

\* the server process, the clients and the accounts
app == <<boot, client, guest, http, projects>>

vars == <<issues, nextId, pc, req, response, ops, plan,
          texts, comments, nextCommentId, users, listed, local, app>>

----------------------------------------------------------------------------
(* Bounds *)

\* requests begun in one behaviour
MaxOps == 2

\* fractional bits kept by a listPosition
FracBits == 1

\* largest destinationIndex a client sends
MaxIndex == 5

----------------------------------------------------------------------------
(* Constants of the program *)

RECURSIVE Pow2(_)
Pow2(n) == IF n = 0 THEN 1 ELSE 2 * Pow2(n - 1)

\* the listPosition 1.0 in fixed point
One == Pow2(FracBits)

\* IssueStatus
Statuses == {"backlog", "selected", "inprogress", "done"}

\* the project made by createGuestAccount
GuestProject == "singularity 1.0"

\* the project made by createGuestAccount for a second guest
SecondGuestProject == "singularity 1.0 (second guest)"

\* the projects in the order of their generated primary keys
ProjectIds == <<GuestProject, SecondGuestProject>>

\* the two request slots that may run concurrently
Req == {1, 2}

\* IssueType
IssueTypes == {"task", "bug", "story"}

\* IssuePriority
Priorities == {"5", "4", "3", "2", "1"}

\* seedIssues: the type and the priority of the n-th issue, its reporter and
\* its assignees as places in the list of the three users
SeedType(n) == IF n \in {3, 4, 6} THEN "story" ELSE "task"

SeedPriority(n) ==
    CASE n \in {1, 6} -> "4"
      [] n = 2       -> "2"
      [] n \in {3, 8} -> "3"
      [] n \in {4, 7} -> "1"
      [] n = 5       -> "5"

SeedReporter(n) ==
    CASE n \in {1, 3, 6} -> 2
      [] n \in {2, 5}    -> 3
      [] OTHER           -> 1

SeedAssignees(n) ==
    CASE n \in {1, 2} -> {1}
      [] n = 4       -> {3}
      [] n = 6       -> {2, 3}
      [] n = 8       -> {2}
      [] OTHER       -> {}

\* seedIssues: the n-th issue of project pid, whose users are usr
SeedIssue(n, pid, usr) ==
    [projectId    |-> pid,
     type         |-> SeedType(n),
     status       |-> CASE n \in 1..4 -> "backlog"
                        [] n \in 5..6 -> "selected"
                        [] n = 7      -> "inprogress"
                        [] OTHER      -> "done",
     priority     |-> SeedPriority(n),
     listPosition |-> (IF n = 8 THEN 7 ELSE n) * One,
     reporterId   |-> usr[SeedReporter(n)],
     userIds      |-> {usr[k] : k \in SeedAssignees(n)}]

\* seedIssues: the eight issues of the first guest account
SeedIssues == [id \in 1..8 |-> SeedIssue(id, GuestProject, <<1, 2, 3>>)]

----------------------------------------------------------------------------
(* Option<Number> *)

None == [present |-> FALSE, key |-> 0]
Some(k) == [present |-> TRUE, key |-> k]

----------------------------------------------------------------------------
(* Text: a stored text is a string; its characters are read through Chars *)

\* is.maxLength(200) of Issue.validations.title
MaxTitleLength == 200

\* a title of 200 characters and one of 201
LongTitle ==
    "xxxxxxxxxxxxxxxxxxxxxxxxxxxxxxxxxxxxxxxxxxxxxxxxxxxxxxxxxxxxxxxxxxxxxxxxxxxxxxxxxxxxxxxxxxxxxxxxxxxxxxxxxxxxxxxxxxxxxxxxxxxxxxxxxxxxxxxxxxxxxxxxxxxxxxxxxxxxxxxxxxxxxxxxxxxxxxxxxxxxxxxxxxxxxxxxxxxxxxxx"

TooLongTitle ==
    "xxxxxxxxxxxxxxxxxxxxxxxxxxxxxxxxxxxxxxxxxxxxxxxxxxxxxxxxxxxxxxxxxxxxxxxxxxxxxxxxxxxxxxxxxxxxxxxxxxxxxxxxxxxxxxxxxxxxxxxxxxxxxxxxxxxxxxxxxxxxxxxxxxxxxxxxxxxxxxxxxxxxxxxxxxxxxxxxxxxxxxxxxxxxxxxxxxxxxxxxx"

\* the characters of the string literals of the model
Chars(s) ==
    CASE s = "This is an issue of type: Task." ->
           <<"T", "h", "i", "s", " ", "i", "s", " ", "a", "n", " ", "i", "s", "s",
             "u", "e", " ", "o", "f", " ", "t", "y", "p", "e", ":", " ", "T", "a",
             "s", "k", ".">>
      [] s = "Click on an issue to see what's behind it." ->
           <<"C", "l", "i", "c", "k", " ", "o", "n", " ", "a", "n", " ", "i", "s",
             "s", "u", "e", " ", "t", "o", " ", "s", "e", "e", " ", "w", "h", "a",
             "t", "'", "s", " ", "b", "e", "h", "i", "n", "d", " ", "i", "t", ".">>
      [] s = "Try dragging issues to different columns to transition their status." ->
           <<"T", "r", "y", " ", "d", "r", "a", "g", "g", "i", "n", "g", " ", "i",
             "s", "s", "u", "e", "s", " ", "t", "o", " ", "d", "i", "f", "f", "e",
             "r", "e", "n", "t", " ", "c", "o", "l", "u", "m", "n", "s", " ", "t",
             "o", " ", "t", "r", "a", "n", "s", "i", "t", "i", "o", "n", " ", "t",
             "h", "e", "i", "r", " ", "s", "t", "a", "t", "u", "s", ".">>
      [] s = "You can use rich text with images in issue descriptions." ->
           <<"Y", "o", "u", " ", "c", "a", "n", " ", "u", "s", "e", " ", "r", "i",
             "c", "h", " ", "t", "e", "x", "t", " ", "w", "i", "t", "h", " ", "i",
             "m", "a", "g", "e", "s", " ", "i", "n", " ", "i", "s", "s", "u", "e",
             " ", "d", "e", "s", "c", "r", "i", "p", "t", "i", "o", "n", "s", ".">>
      [] s = "Each issue can be assigned priority from lowest to highest." ->
           <<"E", "a", "c", "h", " ", "i", "s", "s", "u", "e", " ", "c", "a", "n",
             " ", "b", "e", " ", "a", "s", "s", "i", "g", "n", "e", "d", " ", "p",
             "r", "i", "o", "r", "i", "t", "y", " ", "f", "r", "o", "m", " ", "l",
             "o", "w", "e", "s", "t", " ", "t", "o", " ", "h", "i", "g", "h", "e",
             "s", "t", ".">>
      [] s = "Each issue has a single reporter but can have multiple assignees." ->
           <<"E", "a", "c", "h", " ", "i", "s", "s", "u", "e", " ", "h", "a", "s",
             " ", "a", " ", "s", "i", "n", "g", "l", "e", " ", "r", "e", "p", "o",
             "r", "t", "e", "r", " ", "b", "u", "t", " ", "c", "a", "n", " ", "h",
             "a", "v", "e", " ", "m", "u", "l", "t", "i", "p", "l", "e", " ", "a",
             "s", "s", "i", "g", "n", "e", "e", "s", ".">>
      [] s = "You can track how many hours were spent working on an issue, and how many hours remain." ->
           <<"Y", "o", "u", " ", "c", "a", "n", " ", "t", "r", "a", "c", "k", " ",
             "h", "o", "w", " ", "m", "a", "n", "y", " ", "h", "o", "u", "r", "s",
             " ", "w", "e", "r", "e", " ", "s", "p", "e", "n", "t", " ", "w", "o",
             "r", "k", "i", "n", "g", " ", "o", "n", " ", "a", "n", " ", "i", "s",
             "s", "u", "e", ",", " ", "a", "n", "d", " ", "h", "o", "w", " ", "m",
             "a", "n", "y", " ", "h", "o", "u", "r", "s", " ", "r", "e", "m", "a",
             "i", "n", ".">>
      [] s = "Try leaving a comment on this issue." ->
           <<"T", "r", "y", " ", "l", "e", "a", "v", "i", "n", "g", " ", "a", " ",
             "c", "o", "m", "m", "e", "n", "t", " ", "o", "n", " ", "t", "h", "i",
             "s", " ", "i", "s", "s", "u", "e", ".">>
      [] s = "<p>Your teams can collaborate in Jira applications by breaking down pieces of work into issues. Issues can represent tasks, software bugs, feature requests or any other type of project work.</p>" ->
           <<"<", "p", ">", "Y", "o", "u", "r", " ", "t", "e", "a", "m", "s", " ",
             "c", "a", "n", " ", "c", "o", "l", "l", "a", "b", "o", "r", "a", "t",
             "e", " ", "i", "n", " ", "J", "i", "r", "a", " ", "a", "p", "p", "l",
             "i", "c", "a", "t", "i", "o", "n", "s", " ", "b", "y", " ", "b", "r",
             "e", "a", "k", "i", "n", "g", " ", "d", "o", "w", "n", " ", "p", "i",
             "e", "c", "e", "s", " ", "o", "f", " ", "w", "o", "r", "k", " ", "i",
             "n", "t", "o", " ", "i", "s", "s", "u", "e", "s", ".", " ", "I", "s",
             "s", "u", "e", "s", " ", "c", "a", "n", " ", "r", "e", "p", "r", "e",
             "s", "e", "n", "t", " ", "t", "a", "s", "k", "s", ",", " ", "s", "o",
             "f", "t", "w", "a", "r", "e", " ", "b", "u", "g", "s", ",", " ", "f",
             "e", "a", "t", "u", "r", "e", " ", "r", "e", "q", "u", "e", "s", "t",
             "s", " ", "o", "r", " ", "a", "n", "y", " ", "o", "t", "h", "e", "r",
             " ", "t", "y", "p", "e", " ", "o", "f", " ", "p", "r", "o", "j", "e",
             "c", "t", " ", "w", "o", "r", "k", ".", "<", "/", "p", ">">>
      [] s = "Your teams can collaborate in Jira applications by breaking down pieces of work into issues. Issues can represent tasks, software bugs, feature requests or any other type of project work." ->
           <<"Y", "o", "u", "r", " ", "t", "e", "a", "m", "s", " ", "c", "a", "n",
             " ", "c", "o", "l", "l", "a", "b", "o", "r", "a", "t", "e", " ", "i",
             "n", " ", "J", "i", "r", "a", " ", "a", "p", "p", "l", "i", "c", "a",
             "t", "i", "o", "n", "s", " ", "b", "y", " ", "b", "r", "e", "a", "k",
             "i", "n", "g", " ", "d", "o", "w", "n", " ", "p", "i", "e", "c", "e",
             "s", " ", "o", "f", " ", "w", "o", "r", "k", " ", "i", "n", "t", "o",
             " ", "i", "s", "s", "u", "e", "s", ".", " ", "I", "s", "s", "u", "e",
             "s", " ", "c", "a", "n", " ", "r", "e", "p", "r", "e", "s", "e", "n",
             "t", " ", "t", "a", "s", "k", "s", ",", " ", "s", "o", "f", "t", "w",
             "a", "r", "e", " ", "b", "u", "g", "s", ",", " ", "f", "e", "a", "t",
             "u", "r", "e", " ", "r", "e", "q", "u", "e", "s", "t", "s", " ", "o",
             "r", " ", "a", "n", "y", " ", "o", "t", "h", "e", "r", " ", "t", "y",
             "p", "e", " ", "o", "f", " ", "p", "r", "o", "j", "e", "c", "t", " ",
             "w", "o", "r", "k", ".">>
      [] s = "<h2>Key terms to know</h2><p><br></p><h3>Issues</h3><p>A Jira 'issue' refers to a single work item of any type or size that is tracked from creation to completion.</p>" ->
           <<"<", "h", "2", ">", "K", "e", "y", " ", "t", "e", "r", "m", "s", " ",
             "t", "o", " ", "k", "n", "o", "w", "<", "/", "h", "2", ">", "<", "p",
             ">", "<", "b", "r", ">", "<", "/", "p", ">", "<", "h", "3", ">", "I",
             "s", "s", "u", "e", "s", "<", "/", "h", "3", ">", "<", "p", ">", "A",
             " ", "J", "i", "r", "a", " ", "'", "i", "s", "s", "u", "e", "'", " ",
             "r", "e", "f", "e", "r", "s", " ", "t", "o", " ", "a", " ", "s", "i",
             "n", "g", "l", "e", " ", "w", "o", "r", "k", " ", "i", "t", "e", "m",
             " ", "o", "f", " ", "a", "n", "y", " ", "t", "y", "p", "e", " ", "o",
             "r", " ", "s", "i", "z", "e", " ", "t", "h", "a", "t", " ", "i", "s",
             " ", "t", "r", "a", "c", "k", "e", "d", " ", "f", "r", "o", "m", " ",
             "c", "r", "e", "a", "t", "i", "o", "n", " ", "t", "o", " ", "c", "o",
             "m", "p", "l", "e", "t", "i", "o", "n", ".", "<", "/", "p", ">">>
      [] s = "Key terms to knowIssuesA Jira 'issue' refers to a single work item of any type or size that is tracked from creation to completion." ->
           <<"K", "e", "y", " ", "t", "e", "r", "m", "s", " ", "t", "o", " ", "k",
             "n", "o", "w", "I", "s", "s", "u", "e", "s", "A", " ", "J", "i", "r",
             "a", " ", "'", "i", "s", "s", "u", "e", "'", " ", "r", "e", "f", "e",
             "r", "s", " ", "t", "o", " ", "a", " ", "s", "i", "n", "g", "l", "e",
             " ", "w", "o", "r", "k", " ", "i", "t", "e", "m", " ", "o", "f", " ",
             "a", "n", "y", " ", "t", "y", "p", "e", " ", "o", "r", " ", "s", "i",
             "z", "e", " ", "t", "h", "a", "t", " ", "i", "s", " ", "t", "r", "a",
             "c", "k", "e", "d", " ", "f", "r", "o", "m", " ", "c", "r", "e", "a",
             "t", "i", "o", "n", " ", "t", "o", " ", "c", "o", "m", "p", "l", "e",
             "t", "i", "o", "n", ".">>
      [] s = "<p>An issue's status indicates its current place in the project's workflow.</p>" ->
           <<"<", "p", ">", "A", "n", " ", "i", "s", "s", "u", "e", "'", "s", " ",
             "s", "t", "a", "t", "u", "s", " ", "i", "n", "d", "i", "c", "a", "t",
             "e", "s", " ", "i", "t", "s", " ", "c", "u", "r", "r", "e", "n", "t",
             " ", "p", "l", "a", "c", "e", " ", "i", "n", " ", "t", "h", "e", " ",
             "p", "r", "o", "j", "e", "c", "t", "'", "s", " ", "w", "o", "r", "k",
             "f", "l", "o", "w", ".", "<", "/", "p", ">">>
      [] s = "An issue's status indicates its current place in the project's workflow." ->
           <<"A", "n", " ", "i", "s", "s", "u", "e", "'", "s", " ", "s", "t", "a",
             "t", "u", "s", " ", "i", "n", "d", "i", "c", "a", "t", "e", "s", " ",
             "i", "t", "s", " ", "c", "u", "r", "r", "e", "n", "t", " ", "p", "l",
             "a", "c", "e", " ", "i", "n", " ", "t", "h", "e", " ", "p", "r", "o",
             "j", "e", "c", "t", "'", "s", " ", "w", "o", "r", "k", "f", "l", "o",
             "w", ".">>
      [] s = "<h1>Rich text content with emojis</h1>" ->
           <<"<", "h", "1", ">", "R", "i", "c", "h", " ", "t", "e", "x", "t", " ",
             "c", "o", "n", "t", "e", "n", "t", " ", "w", "i", "t", "h", " ", "e",
             "m", "o", "j", "i", "s", "<", "/", "h", "1", ">">>
      [] s = "Rich text content with emojis" ->
           <<"R", "i", "c", "h", " ", "t", "e", "x", "t", " ", "c", "o", "n", "t",
             "e", "n", "t", " ", "w", "i", "t", "h", " ", "e", "m", "o", "j", "i",
             "s">>
      [] s = "<p>An issue's priority indicates its relative importance.</p>" ->
           <<"<", "p", ">", "A", "n", " ", "i", "s", "s", "u", "e", "'", "s", " ",
             "p", "r", "i", "o", "r", "i", "t", "y", " ", "i", "n", "d", "i", "c",
             "a", "t", "e", "s", " ", "i", "t", "s", " ", "r", "e", "l", "a", "t",
             "i", "v", "e", " ", "i", "m", "p", "o", "r", "t", "a", "n", "c", "e",
             ".", "<", "/", "p", ">">>
      [] s = "An issue's priority indicates its relative importance." ->
           <<"A", "n", " ", "i", "s", "s", "u", "e", "'", "s", " ", "p", "r", "i",
             "o", "r", "i", "t", "y", " ", "i", "n", "d", "i", "c", "a", "t", "e",
             "s", " ", "i", "t", "s", " ", "r", "e", "l", "a", "t", "i", "v", "e",
             " ", "i", "m", "p", "o", "r", "t", "a", "n", "c", "e", ".">>
      [] s = "<h2>Try assigning users to this issue.</h2>" ->
           <<"<", "h", "2", ">", "T", "r", "y", " ", "a", "s", "s", "i", "g", "n",
             "i", "n", "g", " ", "u", "s", "e", "r", "s", " ", "t", "o", " ", "t",
             "h", "i", "s", " ", "i", "s", "s", "u", "e", ".", "<", "/", "h", "2",
             ">">>
      [] s = "Try assigning users to this issue." ->
           <<"T", "r", "y", " ", "a", "s", "s", "i", "g", "n", "i", "n", "g", " ",
             "u", "s", "e", "r", "s", " ", "t", "o", " ", "t", "h", "i", "s", " ",
             "i", "s", "s", "u", "e", ".">>
      [] s = "<p>Before you start work on an issue, you can set a time estimate.</p>" ->
           <<"<", "p", ">", "B", "e", "f", "o", "r", "e", " ", "y", "o", "u", " ",
             "s", "t", "a", "r", "t", " ", "w", "o", "r", "k", " ", "o", "n", " ",
             "a", "n", " ", "i", "s", "s", "u", "e", ",", " ", "y", "o", "u", " ",
             "c", "a", "n", " ", "s", "e", "t", " ", "a", " ", "t", "i", "m", "e",
             " ", "e", "s", "t", "i", "m", "a", "t", "e", ".", "<", "/", "p", ">">>
      [] s = "Before you start work on an issue, you can set a time estimate." ->
           <<"B", "e", "f", "o", "r", "e", " ", "y", "o", "u", " ", "s", "t", "a",
             "r", "t", " ", "w", "o", "r", "k", " ", "o", "n", " ", "a", "n", " ",
             "i", "s", "s", "u", "e", ",", " ", "y", "o", "u", " ", "c", "a", "n",
             " ", "s", "e", "t", " ", "a", " ", "t", "i", "m", "e", " ", "e", "s",
             "t", "i", "m", "a", "t", "e", ".">>
      [] s = "<p>Adding comments to an issue is a useful way to record additional detail.</p>" ->
           <<"<", "p", ">", "A", "d", "d", "i", "n", "g", " ", "c", "o", "m", "m",
             "e", "n", "t", "s", " ", "t", "o", " ", "a", "n", " ", "i", "s", "s",
             "u", "e", " ", "i", "s", " ", "a", " ", "u", "s", "e", "f", "u", "l",
             " ", "w", "a", "y", " ", "t", "o", " ", "r", "e", "c", "o", "r", "d",
             " ", "a", "d", "d", "i", "t", "i", "o", "n", "a", "l", " ", "d", "e",
             "t", "a", "i", "l", ".", "<", "/", "p", ">">>
      [] s = "Adding comments to an issue is a useful way to record additional detail." ->
           <<"A", "d", "d", "i", "n", "g", " ", "c", "o", "m", "m", "e", "n", "t",
             "s", " ", "t", "o", " ", "a", "n", " ", "i", "s", "s", "u", "e", " ",
             "i", "s", " ", "a", " ", "u", "s", "e", "f", "u", "l", " ", "w", "a",
             "y", " ", "t", "o", " ", "r", "e", "c", "o", "r", "d", " ", "a", "d",
             "d", "i", "t", "i", "o", "n", "a", "l", " ", "d", "e", "t", "a", "i",
             "l", ".">>
      [] s = LongTitle -> [n \in 1..MaxTitleLength |-> "x"]
      [] s = TooLongTitle -> [n \in 1..(MaxTitleLength + 1) |-> "x"]
      [] s = "An old silent pond" ->
           <<"A", "n", " ", "o", "l", "d", " ", "s", "i", "l", "e", "n", "t", " ",
             "p", "o", "n", "d">>
      [] s = "<p>Hello <b>World</b></p>" ->
           <<"<", "p", ">", "H", "e", "l", "l", "o", " ", "<", "b", ">", "W", "o",
             "r", "l", "d", "<", "/", "b", ">", "<", "/", "p", ">">>
      [] s = "Hello World" ->
           <<"H", "e", "l", "l", "o", " ", "W", "o", "r", "l", "d">>
      [] s = "" ->
           <<>>
      [] s = "silence" ->
           <<"s", "i", "l", "e", "n", "c", "e">>
      [] s = "silent" ->
           <<"s", "i", "l", "e", "n", "t">>
      [] s = "SILENT" ->
           <<"S", "I", "L", "E", "N", "T">>
      [] s = "zzz-not-present" ->
           <<"z", "z", "z", "-", "n", "o", "t", "-", "p", "r", "e", "s", "e", "n",
             "t">>
      [] s = "workflow" ->
           <<"w", "o", "r", "k", "f", "l", "o", "w">>
      [] s = "DRAGGING" ->
           <<"D", "R", "A", "G", "G", "I", "N", "G">>

\* the texts an issue can hold: titles, descriptions, stripped descriptions
Strings ==
    {"This is an issue of type: Task.",
     "Click on an issue to see what's behind it.",
     "Try dragging issues to different columns to transition their status.",
     "You can use rich text with images in issue descriptions.",
     "Each issue can be assigned priority from lowest to highest.",
     "Each issue has a single reporter but can have multiple assignees.",
     "You can track how many hours were spent working on an issue, and how many hours remain.",
     "Try leaving a comment on this issue.",
     "<p>Your teams can collaborate in Jira applications by breaking down pieces of work into issues. Issues can represent tasks, software bugs, feature requests or any other type of project work.</p>",
     "Your teams can collaborate in Jira applications by breaking down pieces of work into issues. Issues can represent tasks, software bugs, feature requests or any other type of project work.",
     "<h2>Key terms to know</h2><p><br></p><h3>Issues</h3><p>A Jira 'issue' refers to a single work item of any type or size that is tracked from creation to completion.</p>",
     "Key terms to knowIssuesA Jira 'issue' refers to a single work item of any type or size that is tracked from creation to completion.",
     "<p>An issue's status indicates its current place in the project's workflow.</p>",
     "An issue's status indicates its current place in the project's workflow.",
     "<h1>Rich text content with emojis</h1>",
     "Rich text content with emojis",
     "<p>An issue's priority indicates its relative importance.</p>",
     "An issue's priority indicates its relative importance.",
     "<h2>Try assigning users to this issue.</h2>",
     "Try assigning users to this issue.",
     "<p>Before you start work on an issue, you can set a time estimate.</p>",
     "Before you start work on an issue, you can set a time estimate.",
     "<p>Adding comments to an issue is a useful way to record additional detail.</p>",
     "Adding comments to an issue is a useful way to record additional detail.",
     "An old silent pond",
     "<p>Hello <b>World</b></p>",
     "Hello World",
     ""}

\* the string made of the characters cs
Str(cs) == CHOOSE s \in Strings : Chars(s) = cs

\* string | null
NullText == [isNull |-> TRUE, text |-> ""]
Text(s) == [isNull |-> FALSE, text |-> s]

\* if (value): neither null nor the empty string
Truthy(t) == ~t.isNull /\ t.text # ""

\* striptags on the characters lo..hi of cs, entered inside a tag or not: a
\* tag runs from "<" to the next ">" and is dropped, every character outside
\* a tag is kept; the result is the text kept and the state at the end
RECURSIVE StripRange(_, _, _, _)
StripRange(cs, lo, hi, inTag) ==
    IF lo > hi THEN [out |-> <<>>, inTag |-> inTag]
    ELSE IF lo = hi
    THEN IF inTag THEN [out |-> <<>>, inTag |-> cs[lo] # ">"]
         ELSE IF cs[lo] = "<" THEN [out |-> <<>>, inTag |-> TRUE]
         ELSE [out |-> <<cs[lo]>>, inTag |-> FALSE]
    ELSE LET mid   == (lo + hi) \div 2
             left  == StripRange(cs, lo, mid, inTag)
             right == StripRange(cs, mid + 1, hi, left.inTag)
         IN  [out |-> left.out \o right.out, inTag |-> right.inTag]

\* striptags of every text an issue can hold, computed once
Stripped ==
    [s \in Strings |-> Str(StripRange(Chars(s), 1, Len(Chars(s)), FALSE).out)]

\* a mutant: the markup is kept
striptags_KeepTags(s) == s

\* striptags(html)
striptags(s) == Stripped[s]

\* @BeforeInsert @BeforeUpdate setDescriptionText
setDescriptionText(row) ==
    IF Truthy(row.description)
    THEN [row EXCEPT !.descriptionText = Text(striptags(row.description.text))]
    ELSE row

\* ILIKE compares without regard to letter case
Lower(c) ==
    CASE c = "A" -> "a" [] c = "B" -> "b" [] c = "C" -> "c" [] c = "D" -> "d"
      [] c = "E" -> "e" [] c = "F" -> "f" [] c = "G" -> "g" [] c = "H" -> "h"
      [] c = "I" -> "i" [] c = "J" -> "j" [] c = "K" -> "k" [] c = "L" -> "l"
      [] c = "M" -> "m" [] c = "N" -> "n" [] c = "O" -> "o" [] c = "P" -> "p"
      [] c = "Q" -> "q" [] c = "R" -> "r" [] c = "S" -> "s" [] c = "T" -> "t"
      [] c = "U" -> "u" [] c = "V" -> "v" [] c = "W" -> "w" [] c = "X" -> "x"
      [] c = "Y" -> "y" [] c = "Z" -> "z" [] OTHER -> c

ToLower(cs) == [i \in 1..Len(cs) |-> Lower(cs[i])]

\* ts occurs in cs as a run of consecutive characters
Contains(cs, ts) ==
    \E k \in 0..(Len(cs) - Len(ts)) : \A j \in 1..Len(ts) : cs[k + j] = ts[j]

\* a mutant: LIKE, which compares letter case
ILike_CaseSensitive(s, term) == Contains(Chars(s), Chars(term))

\* s ILIKE '%term%' (the terms of the model hold no % and no _)
ILike(s, term) == Contains(ToLower(Chars(s)), ToLower(Chars(term)))

----------------------------------------------------------------------------
(* Seed texts, comments and users of a guest account *)

\* seedIssues: title and description of the eight issues (the description
\* of issue 1 is kept up to the end of its first paragraph); the hook sets
\* descriptionText on insert
SeedTitle(n) ==
    CASE n = 1 -> "This is an issue of type: Task."
      [] n = 2 -> "Click on an issue to see what's behind it."
      [] n = 3 -> "Try dragging issues to different columns to transition their status."
      [] n = 4 -> "You can use rich text with images in issue descriptions."
      [] n = 5 -> "Each issue can be assigned priority from lowest to highest."
      [] n = 6 -> "Each issue has a single reporter but can have multiple assignees."
      [] n = 7 -> "You can track how many hours were spent working on an issue, and how many hours remain."
      [] n = 8 -> "Try leaving a comment on this issue."

SeedDescription(n) ==
    CASE n = 1 ->
           "<p>Your teams can collaborate in Jira applications by breaking down pieces of work into issues. Issues can represent tasks, software bugs, feature requests or any other type of project work.</p>"
      [] n = 2 ->
           "<h2>Key terms to know</h2><p><br></p><h3>Issues</h3><p>A Jira 'issue' refers to a single work item of any type or size that is tracked from creation to completion.</p>"
      [] n = 3 ->
           "<p>An issue's status indicates its current place in the project's workflow.</p>"
      [] n = 4 ->
           "<h1>Rich text content with emojis</h1>"
      [] n = 5 ->
           "<p>An issue's priority indicates its relative importance.</p>"
      [] n = 6 ->
           "<h2>Try assigning users to this issue.</h2>"
      [] n = 7 ->
           "<p>Before you start work on an issue, you can set a time estimate.</p>"
      [] n = 8 ->
           "<p>Adding comments to an issue is a useful way to record additional detail.</p>"

SeedTexts ==
    [id \in 1..8 |->
        setDescriptionText([title           |-> SeedTitle(id),
                            description     |-> Text(SeedDescription(id)),
                            descriptionText |-> NullText])]

\* seedUsers: Pickle Rick, Baby Yoda, Lord Gaben
SeedUsers == 1..3

\* seedComments: one comment per issue, each by Lord Gaben (users[2])
SeedComments == [c \in 1..8 |-> [issueId |-> c, userId |-> 3]]


----------------------------------------------------------------------------
(* Inputs of the requests (ids 0 and "archived" name nothing that exists) *)

StatusInputs == Statuses \cup {"archived"}
ReorderIds == {3, 8, 0}
UpdateIds == {7, 0}
DeleteIds == {4, 8, 0}
IndexInputs == (0 - 1)..MaxIndex

\* listPosition values of a PUT body: 7, and 1 plus one unit of precision
PositionInputs == {7 * One, One + 1}

\* the title of an issue made by POST /issues
NewTitle == "An old silent pond"

\* the body of a POST /issues that passes validation
ValidBody ==
    [title |-> NewTitle, type |-> "task", status |-> "backlog", priority |-> "3",
     reporterId |-> 3]

----------------------------------------------------------------------------
(* The issues of a column and their render order *)

\* a mutant: the status filter is forgotten
ColumnIssues_AnyStatus(iss, pid, st) ==
    {i \in DOMAIN iss : iss[i].projectId = pid}

\* "Find all issues with same projectId and status"
ColumnIssues(iss, pid, st) ==
    {i \in DOMAIN iss : iss[i].projectId = pid /\ iss[i].status = st}

\* a mutant: of two equal keys the later issue comes first
RendersBefore_LaterFirst(iss, a, b) ==
    \/ iss[a].listPosition < iss[b].listPosition
    \/ iss[a].listPosition = iss[b].listPosition /\ a > b

\* listPosition ascending, ties broken by id
RendersBefore(iss, a, b) ==
    \/ iss[a].listPosition < iss[b].listPosition
    \/ iss[a].listPosition = iss[b].listPosition /\ a < b

\* the issues of S in render order: the n-th is the one that n - 1 others
\* render before
SortIssues(iss, S) ==
    [n \in 1..Cardinality(S) |->
        CHOOSE a \in S : Cardinality({b \in S : RendersBefore(iss, b, a)}) = n - 1]

\* the ordered list of newStatus in the issue's project, without the moved issue
DestinationColumn(iss, id, st) ==
    SortIssues(iss, ColumnIssues(iss, iss[id].projectId, st) \ {id})

\* the least listPosition of a non-empty set of issues
MinListPosition(iss, S) ==
    CHOOSE k \in {iss[i].listPosition : i \in S} :
        \A i \in S : k <= iss[i].listPosition

\* a mutant: the new issue takes the least key itself
calculateListPosition_Min(iss, pid, st) ==
    LET col == ColumnIssues(iss, pid, st)
    IN  IF col = {} THEN One ELSE MinListPosition(iss, col)

\* create: min - 1, or 1 if the column has no issue
calculateListPosition(iss, pid, st) ==
    LET col == ColumnIssues(iss, pid, st)
    IN  IF col = {} THEN One ELSE MinListPosition(iss, col) - One

----------------------------------------------------------------------------
(* Position Allocator *)

\* (a + b) / 2 in the precision of a listPosition: exact when a + b is even,
\* else rounded to the nearest representable value, ties to even
Midpoint(a, b) ==
    LET s  == a + b
        lo == s \div 2
    IN  IF s % 2 = 0 THEN lo
        ELSE IF lo % 2 = 0 THEN lo ELSE lo + 1

\* a mutant: the sum is not halved against the lower neighbour
Allocate_UpperNeighbour(before, after) ==
    IF ~before.present /\ ~after.present THEN One
    ELSE IF ~before.present THEN after.key - One
    ELSE IF ~after.present THEN before.key + One
    ELSE after.key

\* allocate(beforeKey, afterKey): no renumbering fallback exists; where the
\* spec is silent (a neighbour before and none after) the key is before + 1
Allocate(before, after) ==
    IF ~before.present /\ ~after.present THEN One
    ELSE IF ~before.present THEN after.key - One
    ELSE IF ~after.present THEN before.key + One
    ELSE Midpoint(before.key, after.key)

\* a mutant: the index is clamped into the column
ValidIndex_Clamp(col, idx) == TRUE

\* destinationIndex is within 0..length of the destination column
ValidIndex(col, idx) == idx >= 0 /\ idx <= Len(col)

Clamp(col, idx) == IF idx < 0 THEN 0 ELSE IF idx > Len(col) THEN Len(col) ELSE idx

NeighbourBefore(iss, col, idx) ==
    IF Clamp(col, idx) = 0 THEN None
    ELSE Some(iss[col[Clamp(col, idx)]].listPosition)

NeighbourAfter(iss, col, idx) ==
    IF Clamp(col, idx) = Len(col) THEN None
    ELSE Some(iss[col[Clamp(col, idx) + 1]].listPosition)

----------------------------------------------------------------------------
(* utils/typeorm and the PUT /issues/:issueId handler *)

\* a mutant: a missing entity is not detected
findEntityOrThrow_NoThrow(iss, id) == TRUE

\* TRUE when the entity is found; otherwise EntityNotFoundError is thrown
findEntityOrThrow(iss, id) == id \in DOMAIN iss

\* a mutant: only the status is saved
updateEntity_StatusOnly(iss, id, st, lp) ==
    [i \in DOMAIN iss |-> IF i = id THEN [iss[i] EXCEPT !.status = st] ELSE iss[i]]

\* a mutant: the update has no WHERE id = ?
updateEntity_EveryRow(iss, id, st, lp) ==
    [i \in DOMAIN iss |->
        IF i = id
        THEN [iss[i] EXCEPT !.status = st, !.listPosition = lp]
        ELSE [iss[i] EXCEPT !.status = st]]

\* the fields of the body are assigned and the issue is saved in one UPDATE
updateEntity(iss, id, st, lp) ==
    [i \in DOMAIN iss |->
        IF i = id
        THEN [iss[i] EXCEPT !.status = st, !.listPosition = lp]
        ELSE iss[i]]

\* BaseEntity.save(): the hooks of the entity run before the row is written
saveTexts(txt, id) == [txt EXCEPT ![id] = setDescriptionText(@)]

\* a mutant: the comments of a deleted issue are kept
deleteCascade_None(cms, issueId) == cms

\* onDelete: 'CASCADE': the comments of the issue go with it
deleteCascade(cms, issueId) ==
    [c \in {d \in DOMAIN cms : cms[d].issueId # issueId} |-> cms[c]]

\* a mutant: the priority is not validated
InvalidField_AnyPriority(e) ==
    IF e.title = "" \/ Len(Chars(e.title)) > MaxTitleLength THEN "title"
    ELSE IF e.type \notin IssueTypes THEN "type"
    ELSE IF e.status \notin Statuses THEN "status"
    ELSE IF ~e.listPosition.present THEN "listPosition"
    ELSE IF e.reporterId = 0 THEN "reporterId"
    ELSE "none"

\* Issue.validations, run on the fields of the entity before it is saved:
\* the first field that fails, or "none".  A missing value is the empty
\* string, an absent Option or the user id 0.
InvalidField(e) ==
    IF e.title = "" \/ Len(Chars(e.title)) > MaxTitleLength THEN "title"
    ELSE IF e.type \notin IssueTypes THEN "type"
    ELSE IF e.status \notin Statuses THEN "status"
    ELSE IF e.priority \notin Priorities THEN "priority"
    ELSE IF ~e.listPosition.present THEN "listPosition"
    ELSE IF e.reporterId = 0 THEN "reporterId"
    ELSE "none"

\* a mutant: save() inserts the row when the id names no issue
UpdateHandler_Upsert(iss, id, st, lp) ==
    IF st \notin Statuses
    THEN [issues |-> iss, code |-> "InvalidInput", field |-> "status"]
    ELSE [issues |->
            [i \in DOMAIN iss \cup {id} |->
                IF i = id
                THEN [projectId |-> GuestProject, type |-> "task", status |-> st,
                      priority |-> "3", listPosition |-> lp, reporterId |-> 3,
                      userIds |-> {}]
                ELSE iss[i]],
          code |-> "ok", field |-> "none"]

\* Update Issue Controller: find issue, update fields, save and return
UpdateHandler(iss, id, st, lp) ==
    IF ~findEntityOrThrow(iss, id)
    THEN [issues |-> iss, code |-> "NotFound", field |-> "none"]
    ELSE IF st \notin Statuses
    THEN [issues |-> iss, code |-> "InvalidInput", field |-> "status"]
    ELSE [issues |-> updateEntity(iss, id, st, lp), code |-> "ok", field |-> "none"]

----------------------------------------------------------------------------
(* The client's local issues, the tokens, the server process, the accounts *)

\* the fields of issue i that a drag changes
Fields(iss, i) == [status |-> iss[i].status, listPosition |-> iss[i].listPosition]

NoFields == [status |-> "backlog", listPosition |-> 0]

\* the local state of a client that has loaded the issues iss
LocalOf(iss) ==
    [issues   |-> [i \in DOMAIN iss |-> Fields(iss, i)],
     previous |-> [r \in Req |-> NoFields]]

\* a mutant: the optimistic update is left out
updateLocalProjectIssues_Late(loc, id, fields) == loc

\* updateLocalProjectIssues(issueId, fields): React state updates immediately
updateLocalProjectIssues(loc, id, fields) ==
    [loc EXCEPT !.issues = [i \in DOMAIN loc.issues |->
                               IF i = id THEN fields ELSE loc.issues[i]]]

\* no Authorization header
NoToken == [present |-> FALSE, sub |-> 0, signed |-> FALSE]

\* signToken: a JWT with the user id in the sub claim
signToken(u) == [present |-> TRUE, sub |-> u, signed |-> TRUE]

\* a token that was not signed with the secret of the server
ForgedToken(u) == [present |-> TRUE, sub |-> u, signed |-> FALSE]

\* the server process before initializeApp, and once it listens
NotStarted ==
    [phase |-> "start", initialized |-> FALSE, verified |-> FALSE, exitCode |-> 0]

Listening ==
    [phase |-> "listening", initialized |-> TRUE, verified |-> TRUE, exitCode |-> 0]

\* a client that holds no token, and the client of the k-th guest account
\* once it has loaded the project
NoClient == [phase |-> "start", token |-> NoToken]

ClientLoaded(k) == [phase |-> "loaded", token |-> signToken(3 * k)]

\* createGuestAccount not called, and the k-th account once it is made
NoGuest == [step |-> "idle", users |-> <<>>, project |-> "", issues |-> <<>>]

GuestDone(k) ==
    [step    |-> "done",
     users   |-> <<3 * k - 2, 3 * k - 1, 3 * k>>,
     project |-> ProjectIds[k],
     issues  |-> [n \in 1..8 |-> 8 * (k - 1) + n]]

\* the projects table after n guest accounts
SeededProjects(n) ==
    [p \in {ProjectIds[k] : k \in 1..n} |->
        [users |-> IF p = GuestProject THEN 1..3 ELSE 4..6]]

NoHttp ==
    [route |-> "none", token |-> NoToken, client |-> 0, user |-> 0,
     handler |-> "none", error |-> "none", code |-> 0, id |-> 0]

----------------------------------------------------------------------------
(* State *)

NoRequest ==
    [id |-> 0, status |-> "backlog", index |-> 0, before |-> None, after |-> None,
     listPosition |-> 0, allocated |-> FALSE]

\* a response: the handler, the id it was given, the outcome, the field refused
Response(op, id, code, field) == [op |-> op, id |-> id, code |-> code, field |-> field]

NoResponse == Response("none", 0, "ok", "none")

NoPlan == [r \in Req |-> [id |-> 0, status |-> "backlog", index |-> 0]]

\* the body of a response to GET /issues: the rows, in the order returned
Listing(pid, term, rows) ==
    [present |-> TRUE, projectId |-> pid, term |-> term, rows |-> rows]

NoListing ==
    [present |-> FALSE, projectId |-> GuestProject, term |-> NullText, rows |-> <<>>]

Init ==
    /\ issues = SeedIssues
    /\ nextId = 9
    /\ pc = [r \in Req |-> "idle"]
    /\ req = [r \in Req |-> NoRequest]
    /\ response = NoResponse
    /\ ops = 0
    /\ plan = NoPlan
    /\ texts = SeedTexts
    /\ comments = SeedComments
    /\ nextCommentId = 9
    /\ users = SeedUsers
    /\ listed = NoListing
    /\ local = LocalOf(SeedIssues)
    /\ boot = Listening
    /\ client = [g \in Req |-> IF g = 1 THEN ClientLoaded(1) ELSE NoClient]
    /\ guest = [g \in Req |-> IF g = 1 THEN GuestDone(1) ELSE NoGuest]
    /\ http = NoHttp
    /\ projects = SeededProjects(1)

----------------------------------------------------------------------------
(* Reorder: the key is computed from the column as read, then PUT *)

\* the request of a reorder, with the neighbour keys and the key allocated
Allocated(id, st, idx, before, after) ==
    [id |-> id, status |-> st, index |-> idx, before |-> before, after |-> after,
     listPosition |-> Allocate(before, after), allocated |-> TRUE]

ReorderBegin(r, id, st, idx) ==
    /\ pc[r] # "sent"
    /\ ops < MaxOps
    /\ ops' = ops + 1
    /\ IF ~findEntityOrThrow(issues, id)
       THEN /\ req' = [req EXCEPT ![r] = NoRequest]
            /\ pc' = [pc EXCEPT ![r] = "done"]
            /\ response' = Response("reorder", id, "NotFound", "none")
       ELSE IF st \notin Statuses
       THEN /\ req' = [req EXCEPT ![r] = NoRequest]
            /\ pc' = [pc EXCEPT ![r] = "done"]
            /\ response' = Response("reorder", id, "InvalidInput", "status")
       ELSE \E col \in {DestinationColumn(issues, id, st)} :
            IF ~ValidIndex(col, idx)
            THEN /\ req' = [req EXCEPT ![r] = NoRequest]
                 /\ pc' = [pc EXCEPT ![r] = "done"]
                 /\ response' = Response("reorder", id, "InvalidInput", "destinationIndex")
            ELSE \E before \in {NeighbourBefore(issues, col, idx)},
                    after \in {NeighbourAfter(issues, col, idx)} :
                 /\ req' = [req EXCEPT ![r] = Allocated(id, st, idx, before, after)]
                 /\ pc' = [pc EXCEPT ![r] = "sent"]
                 /\ UNCHANGED response
    /\ local' =
          IF pc'[r] = "sent"
          THEN [updateLocalProjectIssues(local, id,
                   [status |-> st, listPosition |-> req'[r].listPosition])
                EXCEPT !.previous[r] = local.issues[id]]
          ELSE local
    /\ UNCHANGED <<issues, nextId, plan, texts, comments, nextCommentId, users, listed,
                   app>>

ReorderCommit(r) ==
    /\ pc[r] = "sent"
    /\ LET res == UpdateHandler(issues, req[r].id, req[r].status, req[r].listPosition)
       IN  /\ issues' = res.issues
           /\ texts' = IF res.code = "ok" THEN saveTexts(texts, req[r].id) ELSE texts
           /\ response' = Response("reorder", req[r].id, res.code, res.field)
    /\ pc' = [pc EXCEPT ![r] = "done"]
    /\ req' = [req EXCEPT ![r] = NoRequest]
    /\ listed' = NoListing
    /\ local' =
          IF response'.code = "ok"
          THEN [local EXCEPT !.previous[r] = NoFields]
          ELSE [updateLocalProjectIssues(local, req[r].id, local.previous[r])
                EXCEPT !.previous[r] = NoFields]
    /\ UNCHANGED <<nextId, ops, plan, comments, nextCommentId, users, app>>

----------------------------------------------------------------------------
(* The other issue handlers *)

\* PUT /issues/:issueId with a status and a listPosition chosen by the client
UpdateIssue(id, st, lp) ==
    /\ ops < MaxOps
    /\ ops' = ops + 1
    /\ LET res == UpdateHandler(issues, id, st, lp)
       IN  /\ issues' = res.issues
           /\ texts' = IF res.code = "ok" THEN saveTexts(texts, id) ELSE texts
           /\ response' = Response("update", id, res.code, res.field)
    /\ listed' = NoListing
    /\ UNCHANGED <<nextId, pc, req, plan, comments, nextCommentId, users, local, app>>

\* PUT /issues/:issueId with a description
UpdateDescription(id, desc) ==
    /\ ops < MaxOps
    /\ ops' = ops + 1
    /\ IF ~findEntityOrThrow(issues, id)
       THEN /\ response' = Response("update", id, "NotFound", "none")
            /\ UNCHANGED texts
       ELSE /\ texts' = saveTexts([texts EXCEPT ![id].description = desc], id)
            /\ response' = Response("update", id, "ok", "none")
    /\ listed' = NoListing
    /\ UNCHANGED <<issues, nextId, pc, req, plan, comments, nextCommentId, users, local, app>>

\* the fields of issue i that Issue.validations reads
Entity(iss, txt, i) ==
    [title        |-> txt[i].title,
     type         |-> iss[i].type,
     status       |-> iss[i].status,
     priority     |-> iss[i].priority,
     listPosition |-> Some(iss[i].listPosition),
     reporterId   |-> iss[i].reporterId]

\* POST /issues: calculate listPosition for the status, validate, create
CreateIssue(body, desc) ==
    /\ ops < MaxOps
    /\ ops' = ops + 1
    /\ \E lp \in {calculateListPosition(issues, GuestProject, body.status)} :
       \E field \in {InvalidField([title        |-> body.title,
                                   type         |-> body.type,
                                   status       |-> body.status,
                                   priority     |-> body.priority,
                                   listPosition |-> Some(lp),
                                   reporterId   |-> body.reporterId])} :
       IF field # "none"
       THEN /\ response' = Response("create", 0, "InvalidInput", field)
            /\ UNCHANGED <<issues, nextId, texts>>
       ELSE /\ issues' =
                [i \in DOMAIN issues \cup {nextId} |->
                    IF i = nextId
                    THEN [projectId    |-> GuestProject,
                          type         |-> body.type,
                          status       |-> body.status,
                          priority     |-> body.priority,
                          listPosition |-> lp,
                          reporterId   |-> body.reporterId,
                          userIds      |-> {}]
                    ELSE issues[i]]
            /\ texts' =
                [i \in DOMAIN texts \cup {nextId} |->
                    IF i = nextId
                    THEN setDescriptionText([title           |-> body.title,
                                             description     |-> desc,
                                             descriptionText |-> NullText])
                    ELSE texts[i]]
            /\ nextId' = nextId + 1
            /\ response' = Response("create", nextId, "ok", "none")
    /\ listed' = NoListing
    /\ UNCHANGED <<pc, req, plan, comments, nextCommentId, users, local, app>>

\* PUT /issues/:issueId with a title, a type, a priority, a listPosition and
\* a reporter: find issue, update fields, validate, save
UpdateFields(id, body) ==
    /\ ops < MaxOps
    /\ ops' = ops + 1
    /\ IF ~findEntityOrThrow(issues, id)
       THEN /\ response' = Response("update", id, "NotFound", "none")
            /\ UNCHANGED <<issues, texts>>
       ELSE \E field \in {InvalidField([Entity(issues, texts, id) EXCEPT
                                           !.title = body.title,
                                           !.type = body.type,
                                           !.priority = body.priority,
                                           !.listPosition = body.listPosition,
                                           !.reporterId = body.reporterId])} :
            IF field # "none"
            THEN /\ response' = Response("update", id, "InvalidInput", field)
                 /\ UNCHANGED <<issues, texts>>
            ELSE /\ issues' = [issues EXCEPT ![id].type = body.type,
                                             ![id].priority = body.priority,
                                             ![id].listPosition = body.listPosition.key,
                                             ![id].reporterId = body.reporterId]
                 /\ texts' = saveTexts([texts EXCEPT ![id].title = body.title], id)
                 /\ response' = Response("update", id, "ok", "none")
    /\ listed' = NoListing
    /\ UNCHANGED <<nextId, pc, req, plan, comments, nextCommentId, users, local, app>>

\* DELETE /issues/:issueId
DeleteIssue(id) ==
    /\ ops < MaxOps
    /\ ops' = ops + 1
    /\ IF ~findEntityOrThrow(issues, id)
       THEN /\ response' = Response("delete", id, "NotFound", "none")
            /\ UNCHANGED <<issues, texts, comments>>
       ELSE /\ issues' = [i \in DOMAIN issues \ {id} |-> issues[i]]
            /\ texts' = [i \in DOMAIN texts \ {id} |-> texts[i]]
            /\ comments' = deleteCascade(comments, id)
            /\ response' = Response("delete", id, "ok", "none")
    /\ listed' = NoListing
    /\ UNCHANGED <<nextId, pc, req, plan, nextCommentId, users, local, app>>

\* GET /issues/:issueId
GetIssue(id) ==
    /\ ops < MaxOps
    /\ ops' = ops + 1
    /\ response' = Response("find", id,
                            IF findEntityOrThrow(issues, id) THEN "ok" ELSE "NotFound",
                            "none")
    /\ listed' = NoListing
    /\ UNCHANGED <<issues, nextId, pc, req, plan, texts, comments, nextCommentId, users, local, app>>

Next ==
    \/ \E r \in Req, id \in ReorderIds, st \in StatusInputs, idx \in IndexInputs :
          ReorderBegin(r, id, st, idx)
    \/ \E r \in Req : ReorderCommit(r)
    \/ \E id \in UpdateIds, st \in StatusInputs, lp \in PositionInputs :
          UpdateIssue(id, st, lp)
    \/ \E st \in StatusInputs : CreateIssue([ValidBody EXCEPT !.status = st], NullText)
    \/ \E id \in DeleteIds : DeleteIssue(id)
    \/ \E id \in UpdateIds : GetIssue(id)

Spec == Init /\ [][Next]_vars

----------------------------------------------------------------------------
(* Two drags in flight at once: each slot carries one planned reorder *)

PairIds == {3, 7, 8}

PlanInputs == [id : PairIds, status : Statuses, index : IndexInputs]

InitPair ==
    /\ issues = SeedIssues
    /\ nextId = 9
    /\ pc = [r \in Req |-> "idle"]
    /\ req = [r \in Req |-> NoRequest]
    /\ response = NoResponse
    /\ ops = 0
    /\ plan \in [Req -> PlanInputs]
    /\ texts = SeedTexts
    /\ comments = SeedComments
    /\ nextCommentId = 9
    /\ users = SeedUsers
    /\ listed = NoListing
    /\ local = LocalOf(SeedIssues)
    /\ boot = Listening
    /\ client = [g \in Req |-> IF g = 1 THEN ClientLoaded(1) ELSE NoClient]
    /\ guest = [g \in Req |-> IF g = 1 THEN GuestDone(1) ELSE NoGuest]
    /\ http = NoHttp
    /\ projects = SeededProjects(1)

PairBegin(r) ==
    /\ pc[r] = "idle"
    /\ ReorderBegin(r, plan[r].id, plan[r].status, plan[r].index)

NextPair ==
    \/ \E r \in Req : PairBegin(r)
    \/ \E r \in Req : ReorderCommit(r)

SpecPair == InitPair /\ [][NextPair]_vars

TypeOK ==
    /\ \A i \in DOMAIN issues : issues[i].status \in Statuses
    /\ \A r \in Req : pc[r] \in {"idle", "sent", "done"}
    /\ ops \in 0..MaxOps

----------------------------------------------------------------------------
(* Steps of a reorder, as seen from a pair of states *)

\* request slot r took the step that sends its PUT
IsReorderBegin(r) == pc[r] # "sent" /\ pc'[r] = "sent"

\* request slot r took the step in which the server handles its PUT
IsReorderCommit(r) == pc[r] = "sent" /\ pc'[r] = "done"

\* a reorder was rejected before its PUT was sent
IsReorderReject == ops' = ops + 1 /\ pc' = pc /\ response'.op = "reorder"

\* the other issues of the column st of project pid, as a set
OthersInColumn(iss, pid, st, id) ==
    {i \in DOMAIN iss : i # id /\ iss[i].projectId = pid /\ iss[i].status = st}

KeysOf(iss, S) == {iss[i].listPosition : i \in S}

----------------------------------------------------------------------------
(* Claims *)

\* C1: no two issues of the same (projectId, status) column hold equal
\* listPosition values, in every state reachable from the seeded project by
\* creations, updates and reorders.
C1_DistinctKeysInColumn ==
    \A a, b \in DOMAIN issues :
        (a # b /\ issues[a].projectId = issues[b].projectId
               /\ issues[a].status = issues[b].status)
            => issues[a].listPosition # issues[b].listPosition

C3_HeadKey ==
    [][\A r \in Req :
        /\ (IsReorderBegin(r) /\ req'[r].index = 0) =>
              LET id   == req'[r].id
                  keys == KeysOf(issues, OthersInColumn(issues, issues[id].projectId,
                                                        req'[r].status, id))
              IN  /\ keys = {} => req'[r].listPosition = One
                  /\ keys # {} =>
                        \E m \in keys : /\ \A k \in keys : m <= k
                                        /\ req'[r].listPosition = m - One
                  /\ (keys = {One, 2 * One} /\ issues[id].listPosition = 3 * One
                        /\ issues[id].status = "backlog" /\ req'[r].status = "backlog")
                        => req'[r].listPosition = 0
        /\ (IsReorderCommit(r) /\ response'.code = "ok") =>
              /\ issues'[req[r].id].listPosition = req[r].listPosition
              /\ issues'[req[r].id].status = req[r].status
      ]_vars

\* C3 witness: backlog held keys 1, 2, 3 and the issue with key 3 was moved
\* to index 0, where it has key 0.
C3_Witness ==
    /\ response = Response("reorder", 3, "ok", "none")
    /\ ColumnIssues(issues, GuestProject, "backlog") = {1, 2, 3}
    /\ issues[1].listPosition = One
    /\ issues[2].listPosition = 2 * One
    /\ issues[3].listPosition = 0

\* C4: a reorder changes only the status and listPosition of the moved
\* issue; every other issue keeps its fields and no column is renumbered.
C4_OnlyMovedIssueChanges ==
    [][/\ \A r \in Req :
            IsReorderCommit(r) =>
                /\ DOMAIN issues' = DOMAIN issues
                /\ \A j \in DOMAIN issues \ {req[r].id} : issues'[j] = issues[j]
                /\ req[r].id \in DOMAIN issues =>
                      issues'[req[r].id].projectId = issues[req[r].id].projectId
       /\ ((\E r \in Req : IsReorderBegin(r)) \/ IsReorderReject) => issues' = issues
      ]_vars

\* C4 witness: issue 3 was moved from backlog to done and the rest of the
\* seeded project is as it was.
C4_Witness ==
    /\ response = Response("reorder", 3, "ok", "none")
    /\ issues[3].status = "done"
    /\ DOMAIN issues = DOMAIN SeedIssues
    /\ \A j \in DOMAIN issues \ {3} : issues[j] = SeedIssues[j]

\* the neighbour keys of request q leave no room: they are equal, or the
\* midpoint equals one of them
Degenerate(q) ==
    /\ q.before.present /\ q.after.present
    /\ \/ q.before.key = q.after.key
       \/ q.listPosition = q.before.key
       \/ q.listPosition = q.after.key

\* the keys of a column are consecutive integers along its render order
Renumbered(iss, pid, st) ==
    LET col == SortIssues(iss, ColumnIssues(iss, pid, st))
    IN  \A n \in 1..Len(col) :
            /\ iss[col[n]].listPosition % One = 0
            /\ n > 1 => iss[col[n]].listPosition = iss[col[n - 1]].listPosition + One

\* C5: when the neighbour keys of a reorder are equal, or their midpoint
\* equals one of them, the destination column is renumbered with consecutive
\* integers in render order and afterwards its keys are pairwise distinct.
C5_DegenerateRenumbers ==
    [][\A r \in Req :
        (IsReorderCommit(r) /\ response'.code = "ok" /\ Degenerate(req[r])) =>
            LET pid == issues'[req[r].id].projectId
                col == ColumnIssues(issues', pid, req[r].status)
            IN  /\ Renumbered(issues', pid, req[r].status)
                /\ \A a, b \in col :
                      a # b => issues'[a].listPosition # issues'[b].listPosition
      ]_vars

\* a handler that was given an id completed in this step
HandlerCompleted ==
    \/ ops' = ops + 1 /\ \A r \in Req : ~IsReorderBegin(r)
    \/ \E r \in Req : IsReorderCommit(r)

\* C7: a reorder, find, update or delete that names an issue id that does
\* not exist answers NotFound and leaves every stored issue unchanged.
C7_MissingIssueNotFound ==
    [][(/\ HandlerCompleted
        /\ response'.op \in {"reorder", "find", "update", "delete"}
        /\ response'.id \notin DOMAIN issues)
       => /\ response'.code = "NotFound"
          /\ issues' = issues
      ]_vars

\* C7 witness: the PUT of a reorder reached the server after the issue had
\* been deleted, and was answered NotFound.
C7_Witness ==
    /\ response = Response("reorder", 8, "NotFound", "none")
    /\ 8 \notin DOMAIN issues

\* C10: the PUT of a reorder stores the new status and the new listPosition
\* of the moved issue in one step, or stores neither; no other step of a
\* reorder writes either field.
C10_StatusAndKeyTogether ==
    [][/\ \A r \in Req :
            (IsReorderCommit(r) /\ req[r].id \in DOMAIN issues) =>
                \/ issues' = issues /\ response'.code # "ok"
                \/ /\ response'.code = "ok"
                   /\ issues'[req[r].id].status = req[r].status
                   /\ issues'[req[r].id].listPosition = req[r].listPosition
       /\ \A r \in Req : IsReorderBegin(r) => issues' = issues
      ]_vars

\* C10 witness: issue 8 was moved from done to backlog and holds both its
\* new status and a new listPosition.
C10_Witness ==
    /\ response = Response("reorder", 8, "ok", "none")
    /\ issues[8].status = "backlog"
    /\ issues[8].listPosition # SeedIssues[8].listPosition

----------------------------------------------------------------------------
(* Claims about two concurrent reorders (SpecPair) *)

\* reorder p run alone, as one step, on the issues iss
ReorderAlone(iss, p) ==
    IF p.id \notin DOMAIN iss \/ p.status \notin Statuses THEN iss
    ELSE LET col == DestinationColumn(iss, p.id, p.status)
         IN  IF ~ValidIndex(col, p.index) THEN iss
             ELSE updateEntity(iss, p.id, p.status,
                               Allocate(NeighbourBefore(iss, col, p.index),
                                        NeighbourAfter(iss, col, p.index)))

\* the seeded project after reorder p and then reorder q
OneAfterTheOther(p, q) == ReorderAlone(ReorderAlone(SeedIssues, p), q)

PairDone == \A r \in Req : pc[r] = "done"

RenderOrder(iss, st) == SortIssues(iss, ColumnIssues(iss, GuestProject, st))

\* the planned destinationIndex of slot r is negative or greater than the
\* length of its destination column without the moved issue
IndexOutOfRange(r) ==
    \/ plan[r].index < 0
    \/ plan[r].index >
          Cardinality(OthersInColumn(issues, issues[plan[r].id].projectId,
                                     plan[r].status, plan[r].id))

\* C6: a reorder whose destinationIndex is negative or greater than the
\* length of the destination column (without the moved issue) is rejected as
\* InvalidInput: no key is allocated, no PUT is sent, no issue changes.
C6_IndexOutOfRangeRejected ==
    [][\A r \in Req :
        (pc[r] = "idle" /\ pc'[r] # "idle" /\ IndexOutOfRange(r)) =>
            /\ response' = Response("reorder", plan[r].id, "InvalidInput",
                                    "destinationIndex")
            /\ pc'[r] = "done"
            /\ ~req'[r].allocated
            /\ issues' = issues
      ]_vars

\* C6 witness: issue 3 was to be moved within backlog to index 4, one past
\* the three other issues of the column, and was refused.
C6_Witness ==
    /\ response = Response("reorder", 3, "InvalidInput", "destinationIndex")
    /\ \E r \in Req :
          /\ pc[r] = "done"
          /\ plan[r] = [id |-> 3, status |-> "backlog", index |-> 4]
    /\ issues = SeedIssues

\* C8: two concurrent reorders into the same destination column are
\* serialised: the two moved issues end with different listPosition values
\* and the column's final order is that of the two reorders run one after
\* the other in some order.
C8_SameColumnSerialised ==
    (PairDone /\ plan[1].status = plan[2].status /\ plan[1].id # plan[2].id) =>
        /\ issues[plan[1].id].status = issues[plan[2].id].status =>
              issues[plan[1].id].listPosition # issues[plan[2].id].listPosition
        /\ \E ser \in {OneAfterTheOther(plan[1], plan[2]),
                       OneAfterTheOther(plan[2], plan[1])} :
              RenderOrder(issues, plan[1].status) = RenderOrder(ser, plan[1].status)

\* no slot waits for the other: each can take its next step
NeverBlocked ==
    \A r \in Req :
        /\ pc[r] = "idle" => ENABLED PairBegin(r)
        /\ pc[r] = "sent" => ENABLED ReorderCommit(r)

\* C9, as claimed: two concurrent reorders whose destination columns differ
\* never block each other and give the same final state under every
\* interleaving.
C9_DifferentColumnsSameResult ==
    plan[1].status # plan[2].status =>
        /\ NeverBlocked
        /\ PairDone => issues = OneAfterTheOther(plan[1], plan[2])

\* the two planned reorders move different issues and neither moved issue
\* starts in the destination column of the other
Independent ==
    /\ plan[1].status # plan[2].status
    /\ plan[1].id # plan[2].id
    /\ SeedIssues[plan[1].id].status # plan[2].status
    /\ SeedIssues[plan[2].id].status # plan[1].status

\* C9, amended: two concurrent reorders whose destination columns differ
\* never block each other; they give the same final state under every
\* interleaving when they move different issues and neither moved issue
\* starts in the destination column of the other.
C9_IndependentSameResult ==
    /\ plan[1].status # plan[2].status => NeverBlocked
    /\ (Independent /\ PairDone) =>
          /\ issues = OneAfterTheOther(plan[1], plan[2])
          /\ issues = OneAfterTheOther(plan[2], plan[1])

\* C9 witness: two independent reorders have both been stored.
C9_Witness ==
    /\ PairDone /\ Independent
    /\ \A r \in Req :
          /\ issues[plan[r].id].status = plan[r].status
          /\ issues[plan[r].id] # SeedIssues[plan[r].id]

----------------------------------------------------------------------------
(* Claims about key collisions and the allocator's precondition *)

\* issue id shares its listPosition with another issue of its column
Collides(iss, id) ==
    \E j \in OthersInColumn(iss, iss[id].projectId, iss[id].status, id) :
        iss[j].listPosition = iss[id].listPosition

\* C11: a reorder whose write leaves the moved issue on the key of another
\* issue of its column is retried once through the renumbering fallback: it
\* answers success with the collision gone (the column renumbered), or it
\* answers ConcurrencyConflict.
C11_CollisionRetriedOnce ==
    [][\A r \in Req :
        (/\ IsReorderCommit(r)
         /\ req[r].id \in DOMAIN issues'
         /\ Collides(updateEntity(issues, req[r].id, req[r].status,
                                  req[r].listPosition), req[r].id))
        => \/ response'.code = "ConcurrencyConflict"
           \/ /\ response'.code = "ok"
              /\ ~Collides(issues', req[r].id)
              /\ Renumbered(issues', issues'[req[r].id].projectId, req[r].status)
      ]_vars

\* C12: whenever a reorder calls the allocator with both neighbour keys
\* present, before < after holds; a call with before >= after is rejected and
\* its key is never sent nor stored.
C12_NeighboursOrdered ==
    [][\A r \in Req :
        /\ (IsReorderBegin(r) /\ req'[r].before.present /\ req'[r].after.present)
              => req'[r].before.key < req'[r].after.key
        /\ (/\ IsReorderCommit(r)
            /\ req[r].before.present /\ req[r].after.present
            /\ req[r].before.key >= req[r].after.key)
              => issues' = issues /\ response'.code # "ok"
      ]_vars

----------------------------------------------------------------------------
(* The issue query, the description writes and the comments, with the      *)
(* accounts of two guests in the database                                   *)

ProjectInputs == {GuestProject, SecondGuestProject}

TitleInputs == {NewTitle, LongTitle, TooLongTitle, ""}

TypeInputs == {"task", "epic", ""}

PriorityInputs == {"3", "5", "6", ""}

ReporterInputs == {3, 0}

\* bodies of POST /issues: the valid body with one field replaced
CreateBodies ==
    {[ValidBody EXCEPT !.status = st] : st \in StatusInputs \cup {""}}
    \cup {[ValidBody EXCEPT !.title = t] : t \in TitleInputs}
    \cup {[ValidBody EXCEPT !.type = t] : t \in TypeInputs}
    \cup {[ValidBody EXCEPT !.priority = q] : q \in PriorityInputs}
    \cup {[ValidBody EXCEPT !.reporterId = u] : u \in ReporterInputs}

\* the body of a PUT /issues/:issueId that passes validation
ValidUpdate ==
    [title |-> NewTitle, type |-> "bug", priority |-> "5",
     listPosition |-> Some(7 * One), reporterId |-> 2]

\* bodies of PUT /issues/:issueId: the valid body with one field replaced
UpdateBodies ==
    {[ValidUpdate EXCEPT !.title = t] : t \in TitleInputs}
    \cup {[ValidUpdate EXCEPT !.type = t] : t \in TypeInputs}
    \cup {[ValidUpdate EXCEPT !.priority = q] : q \in PriorityInputs}
    \cup {[ValidUpdate EXCEPT !.listPosition = None]}
    \cup {[ValidUpdate EXCEPT !.reporterId = 0]}

DescriptionInputs == {Text("<p>Hello <b>World</b></p>"), Text(""), NullText}

\* the issue whose description is rewritten (its seed text holds "workflow")
DescriptionIds == {3, 0}

\* searchTerm of GET /issues, absent or present
TermInputs ==
    {NullText, Text("silence"), Text("silent"), Text("SILENT"),
     Text("zzz-not-present"), Text("workflow"), Text("DRAGGING")}

CommentIssueIds == {8, 0}
CommentIds == {8, 0}

\* a mutant: the rows of every project are selected
Matches_AnyProject(iss, txt, pid, term, i) ==
    ~Truthy(term) \/ ILike(txt[i].title, term.text)

\* the WHERE clause of the query builder: the project, and the title when a
\* search term is given
Matches(iss, txt, pid, term, i) ==
    /\ iss[i].projectId = pid
    /\ ~Truthy(term) \/ ILike(txt[i].title, term.text)

QueryIssues(iss, txt, pid, term) ==
    {i \in DOMAIN iss : Matches(iss, txt, pid, term, i)}

\* the ids of S in ascending order, the order of insertion
SortById(S) ==
    [n \in 1..Cardinality(S) |->
        CHOOSE a \in S : Cardinality({b \in S : b < a}) = n - 1]

\* the rows with row m last, where an UPDATE rewrites it
MovedLast(rows, m) ==
    LET others(x) == x # m
    IN  SelectSeq(rows, others) \o <<m>>

\* the query has no ORDER BY: the rows come in the order of the table, which
\* is the order of insertion or that order with a rewritten row last
TableOrders(S) == {SortById(S)} \cup {MovedLast(SortById(S), m) : m \in S}

\* GET /issues
ListIssues(pid, term) ==
    /\ ops < MaxOps
    /\ ops' = ops + 1
    /\ \E rows \in TableOrders(QueryIssues(issues, texts, pid, term)) :
          listed' = Listing(pid, term, rows)
    /\ response' = Response("list", 0, "ok", "none")
    /\ UNCHANGED <<issues, nextId, pc, req, plan, texts, comments, nextCommentId, users, local, app>>

\* POST /comments: the row needs an issue and a user to refer to
CreateComment(issueId, userId) ==
    /\ ops < MaxOps
    /\ ops' = ops + 1
    /\ IF issueId \notin DOMAIN issues \/ userId \notin users
       THEN /\ response' = Response("comment", issueId, "InternalError", "none")
            /\ UNCHANGED <<comments, nextCommentId>>
       ELSE /\ comments' =
                [c \in DOMAIN comments \cup {nextCommentId} |->
                    IF c = nextCommentId
                    THEN [issueId |-> issueId, userId |-> userId]
                    ELSE comments[c]]
            /\ nextCommentId' = nextCommentId + 1
            /\ response' = Response("comment", issueId, "ok", "none")
    /\ listed' = NoListing
    /\ UNCHANGED <<issues, nextId, pc, req, plan, texts, users, local, app>>

\* DELETE /comments/:commentId
DeleteComment(c) ==
    /\ ops < MaxOps
    /\ ops' = ops + 1
    /\ IF ~findEntityOrThrow(comments, c)
       THEN /\ response' = Response("uncomment", c, "NotFound", "none")
            /\ UNCHANGED comments
       ELSE /\ comments' = [d \in DOMAIN comments \ {c} |-> comments[d]]
            /\ response' = Response("uncomment", c, "ok", "none")
    /\ listed' = NoListing
    /\ UNCHANGED <<issues, nextId, pc, req, plan, texts, nextCommentId, users, local, app>>

\* createGuestAccount has run twice: the second guest has ids 9..16
InitStore ==
    /\ issues = [id \in 1..16 |->
                    IF id <= 8 THEN SeedIssues[id]
                    ELSE SeedIssue(id - 8, SecondGuestProject, <<4, 5, 6>>)]
    /\ texts = [id \in 1..16 |-> IF id <= 8 THEN SeedTexts[id] ELSE SeedTexts[id - 8]]
    /\ comments = [c \in 1..16 |->
                      IF c <= 8 THEN SeedComments[c] ELSE [issueId |-> c, userId |-> 6]]
    /\ users = 1..6
    /\ nextId = 17
    /\ nextCommentId = 17
    /\ pc = [r \in Req |-> "idle"]
    /\ req = [r \in Req |-> NoRequest]
    /\ response = NoResponse
    /\ ops = 0
    /\ plan = NoPlan
    /\ listed = NoListing
    /\ local = LocalOf(SeedIssues)
    /\ boot = Listening
    /\ client = [g \in Req |-> ClientLoaded(g)]
    /\ guest = [g \in Req |-> GuestDone(g)]
    /\ http = NoHttp
    /\ projects = SeededProjects(2)

NextStore ==
    \/ \E pid \in ProjectInputs, term \in TermInputs : ListIssues(pid, term)
    \/ \E body \in CreateBodies, desc \in DescriptionInputs : CreateIssue(body, desc)
    \/ \E id \in UpdateIds, body \in UpdateBodies : UpdateFields(id, body)
    \/ \E id \in UpdateIds, st \in StatusInputs, lp \in PositionInputs :
          UpdateIssue(id, st, lp)
    \/ \E id \in DescriptionIds, desc \in DescriptionInputs : UpdateDescription(id, desc)
    \/ \E id \in DeleteIds : DeleteIssue(id)
    \/ \E id \in CommentIssueIds : CreateComment(id, 3)
    \/ \E c \in CommentIds : DeleteComment(c)

SpecStore == InitStore /\ [][NextStore]_vars

----------------------------------------------------------------------------
(* Claims about the issue query, the description text and the comments *)

\* the rows of the last GET /issues, as a set
ListedRows == {listed.rows[n] : n \in 1..Len(listed.rows)}

\* C13: the issues returned by listIssues(projectId, searchTerm?) are ordered
\* by status and, within one status, by listPosition ascending: the rows of
\* one status are adjacent and their listPosition values never decrease.
C13_ListedByStatusThenPosition ==
    listed.present =>
        \A m, n \in 1..Len(listed.rows) :
            (m < n /\ issues[listed.rows[m]].status = issues[listed.rows[n]].status)
            => /\ issues[listed.rows[m]].listPosition <= issues[listed.rows[n]].listPosition
               /\ \A k \in m..n :
                     issues[listed.rows[k]].status = issues[listed.rows[m]].status

\* the place of issue a in the render order of its column
RenderIndex(iss, a) ==
    LET col == SortIssues(iss, ColumnIssues(iss, iss[a].projectId, iss[a].status))
    IN  CHOOSE n \in 1..Len(col) : col[n] = a

TitleOrTextContains(txt, i, term) ==
    \/ ILike(txt[i].title, term)
    \/ ~txt[i].descriptionText.isNull /\ ILike(txt[i].descriptionText.text, term)

\* C15: with a search term present, listIssues returns exactly the issues of
\* the project whose title or whose descriptionText contains the term as a
\* case-insensitive substring.
C15_SearchesTitleAndText ==
    (listed.present /\ Truthy(listed.term)) =>
        ListedRows = {i \in DOMAIN issues :
                         /\ issues[i].projectId = listed.projectId
                         /\ TitleOrTextContains(texts, i, listed.term.text)}

\* the issues of the listed project with the title "An old silent pond"
PondIssues ==
    {i \in DOMAIN issues : /\ issues[i].projectId = listed.projectId
                           /\ texts[i].title = "An old silent pond"}

\* C16, as claimed: listIssues(projectId, "silence") includes an issue titled
\* "An old silent pond", and listIssues(projectId, "zzz-not-present") returns
\* an empty sequence.
C16_SilenceFindsPond ==
    /\ (listed.present /\ listed.term = Text("silence")) => PondIssues \subseteq ListedRows
    /\ (listed.present /\ listed.term = Text("zzz-not-present")) => listed.rows = <<>>

\* C16, amended: listIssues(projectId, "silent"), in either letter case,
\* includes every issue titled "An old silent pond"; "silence" is no
\* substring of that title and does not select it; "zzz-not-present" returns
\* an empty sequence.
C16_SilentFindsPond ==
    /\ (listed.present /\ listed.term \in {Text("silent"), Text("SILENT")})
          => PondIssues \subseteq ListedRows
    /\ (listed.present /\ listed.term = Text("silence"))
          => PondIssues \cap ListedRows = {}
    /\ (listed.present /\ listed.term = Text("zzz-not-present")) => listed.rows = <<>>

\* C16 witness: an issue titled "An old silent pond" was created and the
\* search for "SILENT" returned it.
C16_Witness ==
    /\ listed.present /\ listed.term = Text("SILENT")
    /\ PondIssues # {}
    /\ PondIssues \subseteq ListedRows

\* C17: with no search term, listIssues(projectId) returns every issue of
\* the caller's project, each once, and no issue of any other project.
C17_ListsTheProject ==
    (listed.present /\ ~Truthy(listed.term)) =>
        /\ ListedRows = {i \in DOMAIN issues : issues[i].projectId = listed.projectId}
        /\ Len(listed.rows) = Cardinality(ListedRows)

\* C17 witness: the nine issues of the first guest's project were listed
\* while the second guest's project holds issues of its own.
C17_Witness ==
    /\ listed.present /\ listed.term = NullText /\ listed.projectId = GuestProject
    /\ Len(listed.rows) = 9
    /\ \E i \in DOMAIN issues : issues[i].projectId = SecondGuestProject

\* C18: every stored issue's descriptionText equals its description with the
\* markup tags stripped (nothing when the description is null or empty); an
\* update of the description never leaves the previous descriptionText.
C18_TextFollowsDescription ==
    \A i \in DOMAIN texts :
        IF Truthy(texts[i].description)
        THEN texts[i].descriptionText = Text(striptags(texts[i].description.text))
        ELSE ~Truthy(texts[i].descriptionText)

\* C19: an issue whose description was written as <p>Hello <b>World</b></p>
\* stores exactly Hello World as descriptionText: the characters of the
\* tags are removed, every other character is kept in order.
C19_HelloWorld ==
    \A i \in DOMAIN texts :
        texts[i].description = Text("<p>Hello <b>World</b></p>") =>
            /\ texts[i].descriptionText = Text("Hello World")
            /\ Chars(texts[i].descriptionText.text) =
                  <<"H", "e", "l", "l", "o", " ", "W", "o", "r", "l", "d">>

\* C19 witness: the description of issue 3 was updated to
\* <p>Hello <b>World</b></p> and its descriptionText reads Hello World.
C19_Witness ==
    /\ response = Response("update", 3, "ok", "none")
    /\ texts[3].description = Text("<p>Hello <b>World</b></p>")
    /\ texts[3].descriptionText = Text("Hello World")

\* C20: every stored comment references an existing issue and an existing
\* user; the step that deletes an issue deletes all of its comments.
C20_CommentsReferToIssues ==
    \A c \in DOMAIN comments :
        /\ comments[c].issueId \in DOMAIN issues
        /\ comments[c].userId \in users

\* C20 witness: a comment was added to issue 8, then issue 8 was deleted and
\* neither its seeded comment nor the added one is stored.
C20_Witness ==
    /\ response = Response("delete", 8, "ok", "none")
    /\ nextCommentId = 18
    /\ 8 \notin DOMAIN issues
    /\ \A c \in DOMAIN comments : comments[c].issueId # 8

----------------------------------------------------------------------------
(* The server process: initializeApp, then the express pipeline *)

\* what the handlers and the seed steps write
store == <<issues, nextId, texts, comments, nextCommentId, users, projects>>

\* a mutant: a failed initialisation is logged and the start goes on
exit1_KeepGoing(b) == [b EXCEPT !.phase = "verified"]

\* catch (error): process.exit(1)
exit1(b) == [b EXCEPT !.phase = "exited", !.exitCode = 1]

\* await createDatabaseConnection(): dataSource.initialize() resolves or throws
CreateDatabaseConnection(ok) ==
    /\ boot.phase = "start"
    /\ boot' = IF ok
               THEN [boot EXCEPT !.phase = "initialized", !.initialized = TRUE]
               ELSE exit1(boot)
    /\ UNCHANGED <<store, pc, req, response, ops, plan, listed, local, client, guest, http>>

\* await dataSource.query('SELECT 1'): the connection is verified or the
\* query throws
VerifyConnection(ok) ==
    /\ boot.phase = "initialized"
    /\ boot' = IF ok
               THEN [boot EXCEPT !.phase = "verified", !.verified = TRUE]
               ELSE exit1(boot)
    /\ UNCHANGED <<store, pc, req, response, ops, plan, listed, local, client, guest, http>>

\* initializeExpress(): the middleware and the routes are attached and the
\* server listens
InitializeExpress ==
    /\ boot.phase = "verified"
    /\ boot' = [boot EXCEPT !.phase = "listening"]
    /\ UNCHANGED <<store, pc, req, response, ops, plan, listed, local, client, guest, http>>

\* attachPublicRoutes
GuestRoute == "POST /authentication/guest"

TestRoutes == {"test routes"}

PublicRoutes == {GuestRoute} \cup TestRoutes

\* attachPrivateRoutes: the routes of project, issues, comments, currentUser
\* that the model serves
PrivateRoutes ==
    {"GET /project", "GET /currentUser", "GET /issues/:issueId",
     "PUT /issues/:issueId", "DELETE /issues/:issueId",
     "DELETE /comments/:commentId"}

\* a URL that no route matches
UnknownRoute == "GET /nothing-here"

\* the routes whose handler reads the id of the URL
RoutesWithId == PrivateRoutes \ {"GET /project", "GET /currentUser"}

\* a mutant: the token is decoded but its signature is not verified
authenticateUser_Unverified(usr, tok) ==
    IF tok.present /\ tok.sub \in usr THEN tok.sub ELSE 0

\* authenticateUser: the token is taken from the Authorization header and
\* verified, the user is fetched; the id of currentUser, or 0 when
\* InvalidTokenError is thrown
authenticateUser(usr, tok) ==
    IF tok.present /\ tok.signed /\ tok.sub \in usr THEN tok.sub ELSE 0

\* a mutant: the 404 handler stands before authenticateUser
Route_NotFoundFirst(usr, route, tok) ==
    IF route \in PublicRoutes
    THEN [handler |-> route, user |-> 0, error |-> "none"]
    ELSE IF route \notin PrivateRoutes
    THEN [handler |-> "none", user |-> 0, error |-> "RouteNotFoundError"]
    ELSE IF authenticateUser(usr, tok) = 0
    THEN [handler |-> "none", user |-> 0, error |-> "InvalidTokenError"]
    ELSE [handler |-> route, user |-> authenticateUser(usr, tok), error |-> "none"]

\* the middleware in the order of initializeExpress: the public routes,
\* authenticateUser on every path, the private routes, the 404 handler
Route(usr, route, tok) ==
    IF route \in PublicRoutes
    THEN [handler |-> route, user |-> 0, error |-> "none"]
    ELSE IF authenticateUser(usr, tok) = 0
    THEN [handler |-> "none", user |-> 0, error |-> "InvalidTokenError"]
    ELSE IF route \in PrivateRoutes
    THEN [handler |-> route, user |-> authenticateUser(usr, tok), error |-> "none"]
    ELSE [handler |-> "none", user |-> authenticateUser(usr, tok),
          error |-> "RouteNotFoundError"]

\* handleError: the status of the response
statusOf(error) ==
    CASE error = "none"                -> 200
      [] error = "BadUserInputError"   -> 400
      [] error = "InvalidTokenError"   -> 401
      [] error = "EntityNotFoundError" -> 404
      [] error = "RouteNotFoundError"  -> 404

\* the error class behind the outcome of a handler
errorOf(code) ==
    CASE code = "ok"           -> "none"
      [] code = "NotFound"     -> "EntityNotFoundError"
      [] code = "InvalidInput" -> "BadUserInputError"

\* the record of a request: who sent it, how far it went, how it ended
Http(c, route, tok, r, error, id) ==
    [route |-> route, token |-> tok, client |-> c, user |-> r.user,
     handler |-> r.handler, error |-> error, code |-> statusOf(error),
     id |-> IF r.handler \in RoutesWithId THEN id ELSE 0]

\* the body of the PUT /issues/:issueId that a request of this part carries
PutBody == [status |-> "done", listPosition |-> 7 * One]

\* the project of user u
ProjectOf(prj, u) ==
    IF \E p \in DOMAIN prj : u \in prj[p].users
    THEN CHOOSE p \in DOMAIN prj : u \in prj[p].users
    ELSE ""

\* one request through the pipeline, sent by client c (0: any other sender)
Serve(c, route, tok, id) ==
    /\ boot.phase = "listening"
    /\ \E r \in {Route(users, route, tok)} :
       IF r.handler = "GET /issues/:issueId"
       THEN /\ http' = Http(c, route, tok, r,
                            IF findEntityOrThrow(issues, id) THEN "none"
                            ELSE "EntityNotFoundError", id)
            /\ UNCHANGED <<issues, texts, comments>>
       ELSE IF r.handler = "PUT /issues/:issueId"
       THEN \E res \in {UpdateHandler(issues, id, PutBody.status, PutBody.listPosition)} :
            /\ issues' = res.issues
            /\ texts' = IF res.code = "ok" THEN saveTexts(texts, id) ELSE texts
            /\ http' = Http(c, route, tok, r, errorOf(res.code), id)
            /\ UNCHANGED comments
       ELSE IF r.handler = "DELETE /issues/:issueId"
       THEN IF ~findEntityOrThrow(issues, id)
            THEN /\ http' = Http(c, route, tok, r, "EntityNotFoundError", id)
                 /\ UNCHANGED <<issues, texts, comments>>
            ELSE /\ issues' = [i \in DOMAIN issues \ {id} |-> issues[i]]
                 /\ texts' = [i \in DOMAIN texts \ {id} |-> texts[i]]
                 /\ comments' = deleteCascade(comments, id)
                 /\ http' = Http(c, route, tok, r, "none", id)
       ELSE IF r.handler = "DELETE /comments/:commentId"
       THEN IF ~findEntityOrThrow(comments, id)
            THEN /\ http' = Http(c, route, tok, r, "EntityNotFoundError", id)
                 /\ UNCHANGED <<issues, texts, comments>>
            ELSE /\ comments' = [d \in DOMAIN comments \ {id} |-> comments[d]]
                 /\ http' = Http(c, route, tok, r, "none", id)
                 /\ UNCHANGED <<issues, texts>>
       ELSE /\ http' = Http(c, route, tok, r, r.error, id)
            /\ UNCHANGED <<issues, texts, comments>>
    /\ UNCHANGED <<nextId, nextCommentId, users, projects, pc, req, response, plan,
                   listed, boot, guest>>

----------------------------------------------------------------------------
(* The clients and POST /authentication/guest *)

\* a mutant: the request is sent without the Authorization header
getStoredAuthToken_None(c) == NoToken

\* getStoredAuthToken(): the token of localStorage, put in the
\* Authorization header of every request
getStoredAuthToken(c) == c.token

\* no token in localStorage: the client calls POST /authentication/guest
Authenticate(g) ==
    /\ boot.phase = "listening"
    /\ client[g].phase = "start"
    /\ getStoredAuthToken(client[g]) = NoToken
    /\ \E r \in {Route(users, GuestRoute, NoToken)} :
          /\ http' = Http(g, GuestRoute, NoToken, r, r.error, 0)
          /\ guest' = [guest EXCEPT ![g].step =
                          IF r.handler = GuestRoute THEN "started" ELSE @]
    /\ client' = [client EXCEPT ![g].phase = "authenticating"]
    /\ UNCHANGED <<store, pc, req, response, ops, plan, listed, local, boot>>

\* Step 1 of createGuestAccount: seedUsers
seedUsers(g) ==
    /\ guest[g].step = "started"
    /\ \E n \in {Cardinality(users)} :
          /\ users' = users \cup (n + 1)..(n + 3)
          /\ guest' = [guest EXCEPT ![g].step = "users",
                                    ![g].users = <<n + 1, n + 2, n + 3>>]
    /\ UNCHANGED <<issues, nextId, texts, comments, nextCommentId, projects,
                   pc, req, response, ops, plan, listed, local, boot, client, http>>

\* Step 2: seedProject(users)
seedProject(g) ==
    /\ guest[g].step = "users"
    /\ \E p \in {ProjectIds[Cardinality(DOMAIN projects) + 1]} :
          /\ projects' =
                [q \in DOMAIN projects \cup {p} |->
                    IF q = p
                    THEN [users |-> {guest[g].users[k] : k \in 1..Len(guest[g].users)}]
                    ELSE projects[q]]
          /\ guest' = [guest EXCEPT ![g].step = "project", ![g].project = p]
    /\ UNCHANGED <<issues, nextId, texts, comments, nextCommentId, users,
                   pc, req, response, ops, plan, listed, local, boot, client, http>>

\* Step 3: seedIssues(project)
seedIssues(g) ==
    /\ guest[g].step = "project"
    /\ issues' =
          [i \in DOMAIN issues \cup nextId..(nextId + 7) |->
              IF i >= nextId
              THEN SeedIssue(i - nextId + 1, guest[g].project, guest[g].users)
              ELSE issues[i]]
    /\ texts' =
          [i \in DOMAIN texts \cup nextId..(nextId + 7) |->
              IF i >= nextId THEN SeedTexts[i - nextId + 1] ELSE texts[i]]
    /\ nextId' = nextId + 8
    /\ guest' = [guest EXCEPT ![g].step = "issues",
                              ![g].issues = [n \in 1..8 |-> nextId + n - 1]]
    /\ UNCHANGED <<comments, nextCommentId, users, projects,
                   pc, req, response, ops, plan, listed, local, boot, client, http>>

\* Step 4: seedComments(issues, project.users): one comment per issue, each
\* by users[2]; a comment on an issue that is gone is refused by the database
seedComments(g) ==
    /\ guest[g].step = "issues"
    /\ IF \A n \in 1..8 : guest[g].issues[n] \in DOMAIN issues
       THEN /\ comments' =
                  [c \in DOMAIN comments \cup nextCommentId..(nextCommentId + 7) |->
                      IF c >= nextCommentId
                      THEN [issueId |-> guest[g].issues[c - nextCommentId + 1],
                            userId  |-> guest[g].users[3]]
                      ELSE comments[c]]
            /\ nextCommentId' = nextCommentId + 8
            /\ guest' = [guest EXCEPT ![g].step = "comments"]
       ELSE /\ guest' = [guest EXCEPT ![g].step = "failed"]
            /\ UNCHANGED <<comments, nextCommentId>>
    /\ UNCHANGED <<issues, nextId, texts, users, projects,
                   pc, req, response, ops, plan, listed, local, boot, client, http>>

\* a mutant: the first user is returned
GuestUser_First(usr) == usr[1]

\* return users[2]: the guest user is the third of the seeded users
GuestUser(usr) == usr[3]

\* the token of the guest user is signed and returned, the client stores it
\* in localStorage
storeAuthToken(g) ==
    /\ guest[g].step = "comments"
    /\ client[g].phase = "authenticating"
    /\ client' = [client EXCEPT ![g] =
                     [phase |-> "stored", token |-> signToken(GuestUser(guest[g].users))]]
    /\ guest' = [guest EXCEPT ![g].step = "done"]
    /\ UNCHANGED <<store, pc, req, response, ops, plan, listed, local, boot, http>>

\* the redirect to /project: GET /project with the stored token
LoadProject(g) ==
    /\ client[g].phase = "stored"
    /\ Serve(g, "GET /project", getStoredAuthToken(client[g]), 0)
    /\ client' = [client EXCEPT ![g].phase =
                     IF http'.error = "none" THEN "loaded" ELSE @]
    /\ UNCHANGED <<ops, local>>

\* a later request of a client that has loaded its project
ClientRequest(g, route, id) ==
    /\ client[g].phase = "loaded"
    /\ ops < MaxOps
    /\ ops' = ops + 1
    /\ Serve(g, route, getStoredAuthToken(client[g]), id)
    /\ UNCHANGED <<client, local>>

\* a request of any other sender, which holds no token of the server
Request(route, tok, id) ==
    /\ ops < MaxOps
    /\ ops' = ops + 1
    /\ Serve(0, route, tok, id)
    /\ UNCHANGED <<client, local>>

\* the routes, the tokens and the ids of the requests
RouteInputs == PrivateRoutes \cup TestRoutes \cup {UnknownRoute}

TokenInputs == {NoToken, ForgedToken(3), signToken(0)}

IdInputs == {1, 9, 0}

InitApp ==
    /\ issues = [i \in {} |-> 0]
    /\ nextId = 1
    /\ texts = [i \in {} |-> 0]
    /\ comments = [c \in {} |-> 0]
    /\ nextCommentId = 1
    /\ users = {}
    /\ projects = [p \in {} |-> 0]
    /\ pc = [r \in Req |-> "idle"]
    /\ req = [r \in Req |-> NoRequest]
    /\ response = NoResponse
    /\ ops = 0
    /\ plan = NoPlan
    /\ listed = NoListing
    /\ local = LocalOf([i \in {} |-> 0])
    /\ boot = NotStarted
    /\ client = [g \in Req |-> NoClient]
    /\ guest = [g \in Req |-> NoGuest]
    /\ http = NoHttp

NextApp ==
    \/ \E ok \in BOOLEAN : CreateDatabaseConnection(ok)
    \/ \E ok \in BOOLEAN : VerifyConnection(ok)
    \/ InitializeExpress
    \/ \E g \in Req : Authenticate(g)
    \/ \E g \in Req : seedUsers(g)
    \/ \E g \in Req : seedProject(g)
    \/ \E g \in Req : seedIssues(g)
    \/ \E g \in Req : seedComments(g)
    \/ \E g \in Req : storeAuthToken(g)
    \/ \E g \in Req : LoadProject(g)
    \/ \E g \in Req, route \in RouteInputs, id \in IdInputs : ClientRequest(g, route, id)
    \/ \E route \in RouteInputs, tok \in TokenInputs : Request(route, tok, 0)

SpecApp == InitApp /\ [][NextApp]_vars

----------------------------------------------------------------------------
(* Claims about creation, validation, the drag and the destination index *)

StoredValid(i) ==
    /\ texts[i].title # ""
    /\ Len(Chars(texts[i].title)) <= 200
    /\ issues[i].type \in {"task", "bug", "story"}
    /\ issues[i].status \in {"backlog", "selected", "inprogress", "done"}
    /\ issues[i].priority \in {"1", "2", "3", "4", "5"}
    /\ issues[i].reporterId # 0

\* C22: creating or updating an issue whose fields fail validation (title
\* missing or longer than 200, type, status or priority outside their enums,
\* listPosition or reporterId missing) answers BadUserInputError and persists
\* nothing; every stored issue has a status of the enum and a priority in
\* 1..5.
C22_InvalidNeverStored ==
    /\ [](\A i \in DOMAIN issues : StoredValid(i))
    /\ [][(ops' = ops + 1 /\ response'.code = "InvalidInput")
             => /\ response'.op \in {"create", "update", "reorder"}
                /\ issues' = issues
                /\ texts' = texts
                /\ nextId' = nextId]_vars

\* C22 witness: a POST /issues whose priority is outside the enum was
\* refused with the field named, and the table holds the seeded issues only.
C22_Witness ==
    /\ response = Response("create", 0, "InvalidInput", "priority")
    /\ DOMAIN issues = 1..16
    /\ nextId = 17

\* C24: on a drag the client updates its local issue state before the PUT
\* completes; if the PUT fails the local state is restored to the state
\* before the drag; once the PUTs of an issue have succeeded its local status
\* and listPosition equal those stored by the server, also when a second
\* drag started before the first PUT returned.
C24_LocalFollowsServer ==
    [][\A r \in Req :
          /\ IsReorderBegin(r) =>
                local'.issues[req'[r].id] =
                    [status |-> req'[r].status, listPosition |-> req'[r].listPosition]
          /\ (IsReorderCommit(r) /\ response'.code # "ok") =>
                local'.issues[req[r].id] = local.previous[r]
          /\ (/\ IsReorderCommit(r)
              /\ response'.code = "ok"
              /\ \A q \in Req : pc'[q] = "sent" => req'[q].id # req[r].id) =>
                local'.issues[req[r].id] = Fields(issues', req[r].id)]_vars

\* C26: after a successful reorder(issueId, newStatus, destinationIndex) the
\* moved issue stands at index destinationIndex in the render order of the
\* newStatus column of its project, the column being taken without the moved
\* issue, and the relative order of the other issues of that column is
\* unchanged.
C26_MovedToDestinationIndex ==
    [][\A r \in Req :
          (IsReorderCommit(r) /\ response'.code = "ok") =>
              LET id  == req[r].id
                  col == SortIssues(issues',
                            ColumnIssues(issues', issues'[id].projectId, req[r].status))
              IN  /\ req[r].index + 1 \in DOMAIN col
                  /\ col[req[r].index + 1] = id
                  /\ DestinationColumn(issues', id, req[r].status) =
                        DestinationColumn(issues, id, req[r].status)]_vars

----------------------------------------------------------------------------
(* Claims about the server process, the pipeline and the guest accounts *)

\* the token of the last request is signed by the server and names a user
Verified(h) == h.token.present /\ h.token.signed /\ h.token.sub \in users

IssueRoutes == {"GET /issues/:issueId", "PUT /issues/:issueId", "DELETE /issues/:issueId"}

\* C25: each POST /authentication/guest creates a new project with its own
\* users, issues and comments: no user, issue or comment belongs to two
\* projects, and a request authenticated as one guest never reads or changes
\* an issue of another guest's project.
C25_GuestsKeptApart ==
    /\ [](/\ \A p, q \in DOMAIN projects :
                p # q => projects[p].users \cap projects[q].users = {}
          /\ \A c \in DOMAIN comments :
                comments[c].issueId \in DOMAIN issues =>
                    comments[c].userId \in projects[issues[comments[c].issueId].projectId].users)
    /\ [][(ops' = ops + 1 /\ http'.handler \in IssueRoutes /\ http'.error = "none") =>
             /\ issues[http'.id].projectId = ProjectOf(projects, http'.user)
             /\ \A i \in DOMAIN issues :
                   issues[i].projectId # ProjectOf(projects, http'.user) =>
                       (i \in DOMAIN issues' /\ issues'[i] = issues[i])]_vars

\* client g sends a request in this step
SentBy(g) ==
    /\ http'.client = g
    /\ \/ ops' = ops + 1
       \/ client[g].phase = "start" /\ client'[g].phase = "authenticating"
       \/ client[g].phase = "stored" /\ http' # http

\* C27: the client sends a request to a private endpoint only while a token
\* is stored: with no stored token it first calls POST /authentication/guest,
\* stores the returned token, and only then loads /project; every later
\* request carries that token in the Authorization header.
C27_TokenBeforePrivateRequests ==
    [][\A g \in Req :
          /\ SentBy(g) =>
                IF client[g].token = NoToken
                THEN http'.route = "POST /authentication/guest"
                ELSE /\ http'.route # "POST /authentication/guest"
                     /\ client[g].token = signToken(guest[g].users[3])
                     /\ http'.token = client[g].token
                     /\ client[g].phase = "stored" => http'.route = "GET /project"
          /\ client'[g].token # client[g].token =>
                /\ client[g].token = NoToken
                /\ client[g].phase = "authenticating"
                /\ guest[g].step = "comments"
                /\ client'[g].token = signToken(guest[g].users[3])]_vars

\* C27 witness: the first client, which holds the token returned for its
\* guest user, sent PUT /issues/1 with that token and was served.
C27_Witness ==
    /\ http.client = 1
    /\ http.handler = "PUT /issues/:issueId"
    /\ http.token = client[1].token
    /\ http.token = signToken(guest[1].users[3])
    /\ http.error = "none"

\* C28, as claimed: a request to a URL that matches no route is answered
\* with RouteNotFoundError (404), whether or not it carries a valid token.
C28_UnknownRouteNotFound ==
    http.route = UnknownRoute =>
        (http.error = "RouteNotFoundError" /\ http.code = 404)

\* C28, amended: a request to a URL that matches no route is answered with
\* RouteNotFoundError (404) when it carries a valid token, and with
\* InvalidTokenError (401) when its token is missing or invalid.
C28_UnknownRouteNotFoundWithToken ==
    http.route = UnknownRoute =>
        /\ http.handler = "none"
        /\ IF Verified(http)
           THEN http.error = "RouteNotFoundError" /\ http.code = 404
           ELSE http.error = "InvalidTokenError" /\ http.code = 401

\* C28 witness: a client sent its token to a URL that matches no route and
\* was answered 404.
C28_Witness ==
    /\ http.route = UnknownRoute
    /\ http.client # 0
    /\ http.error = "RouteNotFoundError"
    /\ http.code = 404

\* C29: the server listens only after the database connection has been
\* initialised and verified with a test query; if the connection or the
\* verification fails the process exits with code 1 and never listens; no
\* request is handled without an initialised data source.
C29_ListensAfterVerifiedConnection ==
    /\ [](/\ boot.phase = "listening" => (boot.initialized /\ boot.verified)
          /\ boot.phase = "exited" => (boot.exitCode = 1 /\ ~boot.verified)
          /\ http # NoHttp => (boot.phase = "listening" /\ boot.initialized))
    /\ [][/\ boot.phase = "exited" => boot'.phase = "exited"
          /\ boot'.phase = "listening" => boot.phase \in {"verified", "listening"}]_vars

\* C29 witness: the server listens after both steps and has served a
\* client's GET /project.
C29_Witness ==
    /\ boot.phase = "listening"
    /\ boot.initialized /\ boot.verified
    /\ http.handler = "GET /project"
    /\ http.error = "none"

\* the rows that a step adds to a table
Added(before, after) == DOMAIN after \ DOMAIN before

\* the users of guest account g, as a set
GuestUsers(g) == {guest'[g].users[k] : k \in 1..Len(guest'[g].users)}

\* C30: createGuestAccount runs its steps in the order users, project,
\* issues, comments, each after the previous one has completed; it makes
\* exactly 3 users, 1 project, 8 issues and 8 comments (one per issue), the
\* reporter and the assignees of every issue and the author of every comment
\* being users of that project, and returns the third user.
C30_GuestAccountInOrder ==
    [][\A g \in Req :
          guest'[g].step # guest[g].step =>
             CASE guest'[g].step = "started" -> guest[g].step = "idle"
               [] guest'[g].step = "users" ->
                     /\ guest[g].step = "started"
                     /\ Cardinality(users' \ users) = 3
                     /\ users' \ users = GuestUsers(g)
                     /\ UNCHANGED <<projects, issues, comments>>
               [] guest'[g].step = "project" ->
                     /\ guest[g].step = "users"
                     /\ Added(projects, projects') = {guest'[g].project}
                     /\ projects'[guest'[g].project].users = GuestUsers(g)
                     /\ Cardinality(GuestUsers(g)) = 3
                     /\ UNCHANGED <<users, issues, comments>>
               [] guest'[g].step = "issues" ->
                     /\ guest[g].step = "project"
                     /\ Cardinality(Added(issues, issues')) = 8
                     /\ Added(issues, issues') = {guest'[g].issues[n] : n \in 1..8}
                     /\ \A i \in Added(issues, issues') :
                           /\ issues'[i].projectId = guest[g].project
                           /\ issues'[i].reporterId \in projects[guest[g].project].users
                           /\ issues'[i].userIds \subseteq projects[guest[g].project].users
                     /\ UNCHANGED <<users, projects, comments>>
               [] guest'[g].step = "comments" ->
                     /\ guest[g].step = "issues"
                     /\ Cardinality(Added(comments, comments')) = 8
                     /\ \A n \in 1..8 :
                           Cardinality({c \in Added(comments, comments') :
                                           comments'[c].issueId = guest[g].issues[n]}) = 1
                     /\ \A c \in Added(comments, comments') :
                           /\ comments'[c].userId = guest[g].users[3]
                           /\ comments'[c].userId \in projects[guest[g].project].users
                     /\ UNCHANGED <<users, projects, issues>>
               [] guest'[g].step = "done" ->
                     /\ guest[g].step = "comments"
                     /\ client'[g].token = signToken(guest[g].users[3])
                     /\ UNCHANGED <<users, projects, issues, comments>>
               [] OTHER -> guest[g].step = "issues"]_vars

\* C30 witness: one guest account is complete and the database holds its 3
\* users, its project, its 8 issues and its 8 comments, nothing else.
C30_Witness ==
    /\ guest[1].step = "done"
    /\ client[1].token = signToken(3)
    /\ users = SeedUsers
    /\ projects = SeededProjects(1)
    /\ issues = SeedIssues
    /\ texts = SeedTexts
    /\ comments = SeedComments

====
